---- MODULE Spec2Model ----
(***************************************************************************)
(* A model of the proxy list tools: the validation run of proxyChecker.py  *)
(* (load, thread pool, probes, shared results, cancellation, save) and the *)
(* harvest run of proxyScraper.py (concurrent sources, filter, merge).     *)
(* Text is a sequence of one-character strings, so that splitting,         *)
(* stripping, parsing and ordering are computed as the code computes them. *)
(***************************************************************************)
EXTENDS Integers, Sequences, FiniteSets, TLC

\* ------------------------------------------------------------------ bounds
\* The longest list file the validation run is given (lines).
MaxLines == 3
\* The largest value of the --max-threads option tried.
MaxThreadsArg == 2
\* The longest list file of a run that probes through SOCKS (lines).
MaxSocksLines == 2

\* ------------------------------------------------------- program constants
\* ThreadPoolExecutor(max_workers=min(len(proxies), 100))
PoolCap == 100
\* sys.exit(130) of the cancellation handler
ExitCancelled == 130
\* sys.exit(1) of main's handlers
ExitFailure == 1
\* the status of a process whose main() returns
ExitSuccess == 0
\* the status of argparse's parser.error
ExitUsage == 2
\* 1 <= port_num <= 65535
MaxPort == 65535
\* 0 <= part <= 255
MaxOctet == 255
\* the default of --timeout
DefaultTimeout == 20

\* -------------------------------------------------------------------- text
Digits == {"0", "1", "2", "3", "4", "5", "6", "7", "8", "9"}

Whitespace == {" ", "\t", "\n", "\r"}

IsDigit(c) == c \in Digits

DigitVal(c) ==
    CASE c = "0" -> 0 [] c = "1" -> 1 [] c = "2" -> 2 [] c = "3" -> 3
      [] c = "4" -> 4 [] c = "5" -> 5 [] c = "6" -> 6 [] c = "7" -> 7
      [] c = "8" -> 8 [] c = "9" -> 9

\* The code point of a character: Python compares str by code points.
Ord(c) ==
    CASE c = "\t" -> 9 [] c = "\n" -> 10 [] c = "\r" -> 13 [] c = " " -> 32
      [] c = "#" -> 35 [] c = "+" -> 43 [] c = "-" -> 45 [] c = "." -> 46
      [] c = "/" -> 47 [] c = ":" -> 58
      [] c \in Digits -> 48 + DigitVal(c)
      [] c = "a" -> 97 [] c = "b" -> 98 [] c = "c" -> 99 [] c = "d" -> 100
      [] c = "e" -> 101 [] c = "h" -> 104 [] c = "i" -> 105 [] c = "k" -> 107
      [] c = "l" -> 108 [] c = "n" -> 110 [] c = "o" -> 111 [] c = "p" -> 112
      [] c = "s" -> 115 [] c = "t" -> 116 [] c = "x" -> 120

\* a < b for str: the first differing character decides, a proper prefix is less.
RECURSIVE StrLess(_, _)
StrLess(a, b) ==
    IF b = << >> THEN FALSE
    ELSE IF a = << >> THEN TRUE
    ELSE IF Head(a) = Head(b) THEN StrLess(Tail(a), Tail(b))
    ELSE Ord(Head(a)) < Ord(Head(b))

RECURSIVE LStrip(_)
LStrip(s) == IF s # << >> /\ Head(s) \in Whitespace THEN LStrip(Tail(s)) ELSE s

RECURSIVE RStrip(_)
RStrip(s) ==
    IF s # << >> /\ s[Len(s)] \in Whitespace
    THEN RStrip(SubSeq(s, 1, Len(s) - 1)) ELSE s

\* str.strip()
Strip(s) == RStrip(LStrip(s))

\* The first index of character c in s, 0 when absent.
RECURSIVE FindFrom(_, _, _)
FindFrom(s, c, i) ==
    IF i > Len(s) THEN 0 ELSE IF s[i] = c THEN i ELSE FindFrom(s, c, i + 1)

Find(s, c) == FindFrom(s, c, 1)

\* str.split(c): the pieces between the occurrences of c.
RECURSIVE Split(_, _)
Split(s, c) ==
    LET i == Find(s, c)
    IN  IF i = 0 THEN << s >>
        ELSE << SubSeq(s, 1, i - 1) >> \o Split(SubSeq(s, i + 1, Len(s)), c)

\* str.split(c, 1): at most one split, at the first c.
Split1(s, c) ==
    LET i == Find(s, c)
    IN  IF i = 0 THEN << s >>
        ELSE << SubSeq(s, 1, i - 1), SubSeq(s, i + 1, Len(s)) >>

AllDigits(s) == \A i \in 1..Len(s) : IsDigit(s[i])

RECURSIVE DigitsValue(_)
DigitsValue(s) ==
    IF s = << >> THEN 0
    ELSE 10 * DigitsValue(SubSeq(s, 1, Len(s) - 1)) + DigitVal(s[Len(s)])

\* int(s): surrounding whitespace and one sign are allowed, then digits only;
\* anything else raises ValueError (ok = FALSE).
ParseInt(s) ==
    LET t == Strip(s)
        signed == t # << >> /\ Head(t) \in {"+", "-"}
        d == IF signed THEN Tail(t) ELSE t
    IN  IF d = << >> \/ ~AllDigits(d) THEN [ok |-> FALSE, val |-> 0]
        ELSE [ok |-> TRUE,
              val |-> IF signed /\ Head(t) = "-" THEN 0 - DigitsValue(d)
                      ELSE DigitsValue(d)]

\* str(n) of a natural number.
RECURSIVE ToText(_)
ToText(n) ==
    LET d == CHOOSE c \in Digits : DigitVal(c) = n % 10
    IN  IF n < 10 THEN << d >> ELSE ToText(n \div 10) \o << d >>

\* sorted(xs): insertion into an ordered sequence, equal keys kept (stable).
RECURSIVE InsertSorted(_, _)
InsertSorted(x, s) ==
    IF s = << >> THEN << x >>
    ELSE IF StrLess(x, Head(s)) THEN << x >> \o s
    ELSE << Head(s) >> \o InsertSorted(x, Tail(s))

RECURSIVE Sorted(_)
Sorted(s) ==
    IF s = << >> THEN << >>
    ELSE InsertSorted(s[Len(s)], Sorted(SubSeq(s, 1, Len(s) - 1)))

ToSet(s) == {s[i] : i \in 1..Len(s)}

Min(a, b) == IF a < b THEN a ELSE b

\* Sequences over S of length at most n.
SeqUpTo(S, n) == UNION {[1..k -> S] : k \in 0..n}

\* --------------------------------------------------- proxyChecker.py: data
\* r"^\d{1,3}\.\d{1,3}\.\d{1,3}\.\d{1,3}$"
MatchesIpPattern(ip) ==
    LET parts == Split(ip, ".")
    IN  /\ Len(parts) = 4
        /\ \A i \in 1..4 :
              Len(parts[i]) \in 1..3 /\ AllDigits(parts[i])

\* Proxy.is_valid on the stripped text of a line.
is_valid(proxy) ==
    IF proxy = << >> \/ Find(proxy, ":") = 0 THEN FALSE
    ELSE LET sp == Split1(proxy, ":")
             ip == sp[1]
             port == ParseInt(sp[2])
         IN  IF ~MatchesIpPattern(ip) THEN FALSE
             ELSE IF ~(\A i \in 1..4 :
                         DigitsValue(Split(ip, ".")[i]) \in 0..MaxOctet)
                  THEN FALSE
             ELSE IF ~port.ok THEN FALSE
             ELSE port.val >= 1 /\ port.val <= MaxPort

\* _process_proxy_line: the Proxy of a line, or NoProxy for a blank line, a
\* comment or a line Proxy() rejects.
NoProxy == << "#" >>

process_proxy_line(line) ==
    LET l == Strip(line)
    IN  IF l = << >> \/ Head(l) = "#" THEN NoProxy
        ELSE IF is_valid(l) THEN l ELSE NoProxy

\* limit of load_proxies_from_file: NoLimit stands for None.
NoLimit == 0 - 1

\* As load_from, with loading stopped only once more than `limit` are held.
RECURSIVE load_from_past_limit(_, _, _)
load_from_past_limit(ls, lim, acc) ==
    IF ls = << >> THEN acc
    ELSE IF lim # NoLimit /\ Len(acc) > lim THEN acc
    ELSE LET p == process_proxy_line(Head(ls))
         IN  load_from_past_limit(Tail(ls), lim,
                                  IF p # NoProxy THEN Append(acc, p) ELSE acc)

\* load_proxies_from_file: the candidates of the lines in file order, loading
\* stopped once `limit` of them are held.
RECURSIVE load_from(_, _, _)
load_from(ls, lim, acc) ==
    IF ls = << >> THEN acc
    ELSE IF lim # NoLimit /\ Len(acc) >= lim THEN acc
    ELSE LET p == process_proxy_line(Head(ls))
         IN  load_from(Tail(ls), lim, IF p # NoProxy THEN Append(acc, p) ELSE acc)

load_proxies_from_file(ls, lim) == load_from(ls, lim, << >>)

\* save_valid_proxies: the lines written, sorted by the proxy text.
save_valid_proxies(valid) == Sorted(valid)

\* The lines of a list file tried as input.
LnA == << "1", ".", "2", ".", "3", ".", "4", ":", "8", "0" >>
LnB == << "1", ".", "2", ".", "3", ".", "4", ":", "9" >>
LnComment == << "#", "x" >>
LnBadPort == << "1", ".", "2", ".", "3", ".", "4", ":", "0" >>

LineUniverse == {LnA, LnB, LnComment, LnBadPort}

\* The proxy types tried: http stands for http/https (a ProxyHandler of the
\* probe's own), socks5 for socks4/socks5 (the process-wide socket factory).
HttpMethods == {"http"}
SocksMethods == {"socks5"}

Candidates == {l \in LineUniverse : process_proxy_line(l) # NoProxy}

\* What a request is tunneled through when no proxy is in its way.
Direct == << "-" >>

\* socket.socket: the factory of the standard library, or socks.socksocket.
OriginalSocket == "socket"
SocksSocket == "socksocket"

\* ------------------------------------------------- proxyChecker.py: state
VARIABLES
    file,            \* the lines of the list file (args.list)
    file_exists,     \* Path(args.list).exists()
    timeout,         \* args.timeout
    summary,         \* what the final statistics of check() printed
    method,          \* args.proxy
    max_threads,     \* args.max_threads
    limit,           \* args.limit
    alive,           \* the candidates through which the target answers
    pc,              \* where the main thread is
    exit_code,       \* the status the process ends with (NoExit until then)
    proxies,         \* check(): the loaded candidates
    max_workers,     \* the executor's max_workers (0: no executor yet)
    submitted,       \* how many of proxies have been submitted
    task,            \* per submitted candidate: where its check_single_proxy is
    result,          \* per candidate: is_valid as proxy.check returned it
    route,           \* per candidate: what its request was tunneled through
    lock,            \* threading.Lock: 0 free, else the task holding it
    seen,            \* per candidate: checked_count_ref[0] as read under the lock
    checked_count,   \* checked_count_ref[0]
    valid_proxies,   \* the shared list of surviving candidates
    surv_at_cancel,  \* valid_proxies when KeyboardInterrupt was caught
    saved,           \* how many times save_valid_proxies wrote the file
    reported,        \* len(valid_proxies) as the cancellation summary printed it
    socket_socket,   \* the process-wide socket.socket
    default_proxy,   \* the process-wide default proxy of the socks module
    original_socket, \* per candidate: original_socket of _check_socks_proxy
    interrupted_at,  \* where the main thread was when KeyboardInterrupt came
    attempts         \* per candidate: how many times Proxy.check was entered

cvars == << file, file_exists, method, max_threads, timeout, limit, alive, pc, exit_code, proxies,
            max_workers, submitted, task, result, route, lock, seen,
            checked_count, valid_proxies, surv_at_cancel, saved, reported, summary,
            socket_socket, default_proxy, original_socket, interrupted_at,
            attempts >>

NoExit == 0 - 1
NotCancelled == << NoProxy >>
NoRoute == << >>

Tasks == 1..Len(proxies)

\* A probe is in flight from the moment a worker took the candidate until
\* proxy.check has returned.
InFlightStates == {"running", "s_default", "s_patch", "s_connect", "s_restore"}

InFlight == {i \in Tasks : task[i] \in InFlightStates}

\* The worker threads busy with a candidate.
Busy == {i \in Tasks : task[i] \in InFlightStates \cup {"checked", "locked"}}

\* Before the final statistics are printed.
NoSummary == [total |-> 0, valid |-> 0, rate |-> << >>]

\* The values of --timeout tried: the default and two that are not positive.
TimeoutsTried == {0 - 1, 0, DefaultTimeout}

\* The values of --limit tried: none, and caps of no and of one candidate.
LimitsTried == {NoLimit, 0, 1}

\* A run starts in main() after parse_args: the list file is there with its
\* lines, or is missing.
CheckInitWith(methods, maxLines) ==
    /\ file \in SeqUpTo(LineUniverse, maxLines)
    /\ file_exists \in BOOLEAN
    /\ ~file_exists => file = << >>
    /\ timeout \in TimeoutsTried
    /\ summary = NoSummary
    /\ method \in methods
    /\ max_threads \in 0..MaxThreadsArg
    /\ limit \in LimitsTried
    /\ alive \in SUBSET Candidates
    /\ pc = "validate"
    /\ exit_code = NoExit
    /\ proxies = << >>
    /\ max_workers = 0
    /\ submitted = 0
    /\ task = << >>
    /\ result = << >>
    /\ route = << >>
    /\ lock = 0
    /\ seen = << >>
    /\ checked_count = 0
    /\ valid_proxies = << >>
    /\ surv_at_cancel = NotCancelled
    /\ saved = 0
    /\ reported = NoExit
    /\ socket_socket = OriginalSocket
    /\ default_proxy = NoRoute
    /\ original_socket = << >>
    /\ interrupted_at = "none"
    /\ attempts = << >>

\* ----------------------------------------------- proxyChecker.py: actions
\* As args_valid, with the check that the list file exists left out.
args_valid_file_unchecked(t, m, e) == t > 0 /\ m > 0

\* The checks of _configure_logging_and_validate_args.
args_valid(t, m, e) == t > 0 /\ m > 0 /\ e

\* _configure_logging_and_validate_args: a timeout or max-threads that is not
\* positive, or a missing list file, ends the process with status 1.
ValidateArgs ==
    /\ pc = "validate"
    /\ IF args_valid(timeout, max_threads, file_exists)
       THEN pc' = "load" /\ exit_code' = exit_code
       ELSE pc' = "exited" /\ exit_code' = ExitFailure
    /\ UNCHANGED << attempts, interrupted_at, file, file_exists, method, max_threads,
                    timeout, limit, alive, proxies, max_workers, submitted,
                    task, result, route, lock, seen, checked_count,
                    valid_proxies, surv_at_cancel, saved, reported, summary,
                    socket_socket, default_proxy, original_socket >>

\* _prepare_checking_environment and the start of check(): the candidates are
\* loaded (a file that is not there ends the process in _read_proxy_file);
\* with none, check() returns and main ends; else the shared state and the
\* executor are created.
Load ==
    /\ pc = "load"
    /\ LET ps == IF file_exists THEN load_proxies_from_file(file, limit)
                 ELSE << >>
       IN  /\ proxies' = ps
           /\ task' = [i \in 1..Len(ps) |-> "unsubmitted"]
           /\ result' = [i \in 1..Len(ps) |-> FALSE]
           /\ route' = [i \in 1..Len(ps) |-> NoRoute]
           /\ seen' = [i \in 1..Len(ps) |-> 0]
           /\ original_socket' = [i \in 1..Len(ps) |-> OriginalSocket]
           /\ attempts' = [i \in 1..Len(ps) |-> 0]
           /\ IF ps = << >>
              THEN /\ pc' = "exited"
                   /\ exit_code' = IF file_exists THEN ExitSuccess
                                   ELSE ExitFailure
                   /\ max_workers' = 0
              ELSE /\ pc' = "submit"
                   /\ exit_code' = exit_code
                   /\ max_workers' = Min(Len(ps), PoolCap)
    /\ UNCHANGED << interrupted_at, file, file_exists, method, max_threads, timeout, limit, alive, submitted, lock,
                    checked_count, valid_proxies, surv_at_cancel, saved,
                    reported, summary, socket_socket, default_proxy >>

\* futures = [executor.submit(check_single_proxy, proxy) for proxy in proxies]
Submit ==
    /\ pc = "submit"
    /\ submitted < Len(proxies)
    /\ submitted' = submitted + 1
    /\ task' = [task EXCEPT ![submitted + 1] = "queued"]
    /\ UNCHANGED << attempts, interrupted_at, file, file_exists, method, max_threads, timeout, limit, alive, pc, exit_code,
                    proxies, max_workers, result, route, lock, seen,
                    checked_count, valid_proxies, surv_at_cancel, saved,
                    reported, summary, socket_socket, default_proxy, original_socket >>

\* The comprehension is through: the main thread waits in as_completed.
SubmitDone ==
    /\ pc = "submit"
    /\ submitted = Len(proxies)
    /\ pc' = "wait"
    /\ UNCHANGED << attempts, interrupted_at, file, file_exists, method, max_threads, timeout, limit, alive, exit_code, proxies,
                    max_workers, submitted, task, result, route, lock, seen,
                    checked_count, valid_proxies, surv_at_cancel, saved,
                    reported, summary, socket_socket, default_proxy, original_socket >>

\* A worker thread of the pool takes a queued candidate: at most max_workers
\* threads exist.
CanStart(i) ==
    /\ task[i] = "queued"
    /\ Cardinality(Busy) < max_workers

Start(i) ==
    /\ CanStart(i)
    /\ task' = [task EXCEPT ![i] = "running"]
    /\ UNCHANGED << attempts, interrupted_at, file, file_exists, method, max_threads, timeout, limit, alive, pc, exit_code,
                    proxies, max_workers, submitted, result, route, lock, seen,
                    checked_count, valid_proxies, surv_at_cancel, saved,
                    reported, summary, socket_socket, default_proxy, original_socket >>

\* Whether a request tunneled through r is answered: the target answers a
\* direct request.
RouteWorks(r) == r = Direct \/ r \in alive

\* _check_http_proxy: an opener with the probe's own ProxyHandler.
HttpRoute(i) == proxies[i]

\* As after_probe, with a failed probe put back to be probed again.
after_probe_retrying(ok) == IF ok THEN "checked" ELSE "running"

\* Proxy.check returns (is_valid, time, error) whether the request was
\* answered or raised: check_single_proxy goes on to the lock.
after_probe(ok) == "checked"

CheckHttp(i) ==
    /\ method \in HttpMethods
    /\ task[i] = "running"
    /\ attempts' = [attempts EXCEPT ![i] = attempts[i] + 1]
    /\ route' = [route EXCEPT ![i] = HttpRoute(i)]
    /\ result' = [result EXCEPT ![i] = RouteWorks(HttpRoute(i))]
    /\ task' = [task EXCEPT ![i] = after_probe(RouteWorks(HttpRoute(i)))]
    /\ UNCHANGED << interrupted_at, file, file_exists, method, max_threads, timeout, limit, alive, pc, exit_code,
                    proxies, max_workers, submitted, lock, seen, checked_count,
                    valid_proxies, surv_at_cancel, saved, reported, summary,
                    socket_socket, default_proxy, original_socket >>

\* _check_socks_proxy, statement by statement.
\* original_socket = socket.socket
SocksSaveOriginal(i) ==
    /\ method \in SocksMethods
    /\ task[i] = "running"
    /\ original_socket' = [original_socket EXCEPT ![i] = socket_socket]
    /\ attempts' = [attempts EXCEPT ![i] = attempts[i] + 1]
    /\ task' = [task EXCEPT ![i] = "s_default"]
    /\ UNCHANGED << interrupted_at, file, file_exists, method, max_threads, timeout, limit, alive, pc, exit_code,
                    proxies, max_workers, submitted, result, route, lock, seen,
                    checked_count, valid_proxies, surv_at_cancel, saved,
                    reported, summary, socket_socket, default_proxy >>

\* socks.set_default_proxy(socks_type, ip, int(port))
SocksSetDefault(i) ==
    /\ task[i] = "s_default"
    /\ default_proxy' = proxies[i]
    /\ task' = [task EXCEPT ![i] = "s_patch"]
    /\ UNCHANGED << attempts, interrupted_at, file, file_exists, method, max_threads, timeout, limit, alive, pc, exit_code,
                    proxies, max_workers, submitted, result, route, lock, seen,
                    checked_count, valid_proxies, surv_at_cancel, saved,
                    reported, summary, socket_socket, original_socket >>

\* socket.socket = socks.socksocket
SocksPatch(i) ==
    /\ task[i] = "s_patch"
    /\ socket_socket' = SocksSocket
    /\ task' = [task EXCEPT ![i] = "s_connect"]
    /\ UNCHANGED << attempts, interrupted_at, file, file_exists, method, max_threads, timeout, limit, alive, pc, exit_code,
                    proxies, max_workers, submitted, result, route, lock, seen,
                    checked_count, valid_proxies, surv_at_cancel, saved,
                    reported, summary, default_proxy, original_socket >>

\* urllib.request.urlopen(site): the connection is made by whatever
\* socket.socket is at that moment; a socksocket takes the default proxy of
\* that moment.
SocksRoute ==
    IF socket_socket = SocksSocket THEN default_proxy ELSE Direct

SocksConnect(i) ==
    /\ task[i] = "s_connect"
    /\ route' = [route EXCEPT ![i] = SocksRoute]
    /\ result' = [result EXCEPT ![i] = RouteWorks(SocksRoute)]
    /\ task' = [task EXCEPT ![i] = "s_restore"]
    /\ UNCHANGED << attempts, interrupted_at, file, file_exists, method, max_threads, timeout, limit, alive, pc, exit_code,
                    proxies, max_workers, submitted, lock, seen, checked_count,
                    valid_proxies, surv_at_cancel, saved, reported, summary,
                    socket_socket, default_proxy, original_socket >>

\* finally: socket.socket = original_socket
SocksRestore(i) ==
    /\ task[i] = "s_restore"
    /\ socket_socket' = original_socket[i]
    /\ task' = [task EXCEPT ![i] = after_probe(result[i])]
    /\ UNCHANGED << attempts, interrupted_at, file, file_exists, method, max_threads, timeout, limit, alive, pc, exit_code,
                    proxies, max_workers, submitted, result, route, lock, seen,
                    checked_count, valid_proxies, surv_at_cancel, saved,
                    reported, summary, default_proxy, original_socket >>

\* As LockFree, with no mutual exclusion.
LockNeverHeld == TRUE

\* with lock: entered by one thread at a time; the counter is read.
LockFree == lock = 0

Acquire(i) ==
    /\ task[i] = "checked"
    /\ LockFree
    /\ lock' = i
    /\ seen' = [seen EXCEPT ![i] = checked_count]
    /\ task' = [task EXCEPT ![i] = "locked"]
    /\ UNCHANGED << attempts, interrupted_at, file, file_exists, method, max_threads, timeout, limit, alive, pc, exit_code,
                    proxies, max_workers, submitted, result, route,
                    checked_count, valid_proxies, surv_at_cancel, saved,
                    reported, summary, socket_socket, default_proxy, original_socket >>

\* As Appended, with the candidate appended a second time.
AppendedTwice(i) ==
    IF result[i] THEN Append(Append(valid_proxies, proxies[i]), proxies[i])
    ELSE valid_proxies

\* As Appended, with the candidate appended whatever its probe returned.
AppendedAlways(i) == Append(valid_proxies, proxies[i])

\* checked_count_ref[0] += 1; if is_valid: valid_proxies.append(proxy); the
\* lock is released and the future is done.
Appended(i) == IF result[i] THEN Append(valid_proxies, proxies[i]) ELSE valid_proxies

Record(i) ==
    /\ task[i] = "locked"
    /\ checked_count' = seen[i] + 1
    /\ valid_proxies' = Appended(i)
    /\ lock' = IF lock = i THEN 0 ELSE lock
    /\ task' = [task EXCEPT ![i] = "done"]
    /\ UNCHANGED << attempts, interrupted_at, file, file_exists, method, max_threads, timeout, limit, alive, pc, exit_code,
                    proxies, max_workers, submitted, result, route, seen,
                    surv_at_cancel, saved, reported, summary, socket_socket,
                    default_proxy, original_socket >>

\* An exception reaches the except clause of check_single_proxy before the
\* lock is taken (raised while Proxy.check reports a failure, say): it is
\* logged, the candidate is not counted, the worker returns.
RaiseOutside(i) ==
    /\ method \in HttpMethods
    /\ task[i] = "running"
    /\ attempts' = [attempts EXCEPT ![i] = attempts[i] + 1]
    /\ task' = [task EXCEPT ![i] = "raised"]
    /\ UNCHANGED << interrupted_at, file, file_exists, method, max_threads, timeout, limit, alive, pc, exit_code,
                    proxies, max_workers, submitted, result, route, lock, seen,
                    checked_count, valid_proxies, surv_at_cancel, saved,
                    reported, summary, socket_socket, default_proxy, original_socket >>

\* As lock_after_raise, with the lock acquired and released by hand and no
\* finally: an exception leaves it held.
lock_kept_after_raise(i) == lock

\* with lock: the context manager releases the lock when the block is left by
\* an exception.
lock_after_raise(i) == IF lock = i THEN 0 ELSE lock

\* An exception inside the with block, before its first statement (counted
\* = FALSE) or after the updates (at the progress print): the lock is
\* released, the except clause logs, the worker returns.
RaiseInside(i, counted) ==
    /\ task[i] = "locked"
    /\ checked_count' = IF counted THEN seen[i] + 1 ELSE checked_count
    /\ valid_proxies' = IF counted THEN Appended(i) ELSE valid_proxies
    /\ lock' = lock_after_raise(i)
    /\ task' = [task EXCEPT ![i] = "raised"]
    /\ UNCHANGED << attempts, interrupted_at, file, file_exists, method, max_threads, timeout, limit, alive, pc, exit_code,
                    proxies, max_workers, submitted, result, route, seen,
                    surv_at_cancel, saved, reported, summary, socket_socket,
                    default_proxy, original_socket >>

\* As AllDone, with the wait over as soon as one future is done.
FirstDone == \E i \in Tasks : task[i] = "done"

\* A future is finished when check_single_proxy has returned, be it after an
\* exception its except clause swallowed.
Finished == {"done", "raised"}

\* for _ in as_completed(futures): pass, then executor.shutdown(wait=True):
\* every future is done.
AllDone == \A i \in Tasks : task[i] \in Finished

AwaitAll ==
    /\ pc = "wait"
    /\ AllDone
    /\ pc' = "save"
    /\ UNCHANGED << attempts, interrupted_at, file, file_exists, method, max_threads, timeout, limit, alive, exit_code, proxies,
                    max_workers, submitted, task, result, route, lock, seen,
                    checked_count, valid_proxies, surv_at_cancel, saved,
                    reported, summary, socket_socket, default_proxy, original_socket >>

\* As success_rate, with the division rounding down to a whole percent.
success_rate_whole(valid, total) ==
    ToText((100 * valid) \div total) \o << ".", "0" >>

\* f"{(len(valid_proxies) / len(proxies)) * 100:.1f}": the percentage rounded
\* to the nearest tenth (a tie, which needs 16 to divide the total, goes to
\* the even tenth).
success_rate(valid, total) ==
    LET q == (1000 * valid) \div total
        r == (1000 * valid) % total
        tenths == IF 2 * r > total \/ (2 * r = total /\ q % 2 = 1)
                  THEN q + 1 ELSE q
    IN  ToText(tenths \div 10) \o << "." >> \o ToText(tenths % 10)

\* The final save of _run_proxy_check_threadpool and the return to check(),
\* which prints the final statistics; main() then ends.
SaveFinal ==
    /\ pc = "save"
    /\ file' = save_valid_proxies(valid_proxies)
    /\ file_exists' = TRUE
    /\ saved' = saved + 1
    /\ summary' = [total |-> Len(proxies), valid |-> Len(valid_proxies),
                   rate |-> success_rate(Len(valid_proxies), Len(proxies))]
    /\ pc' = "exited"
    /\ exit_code' = ExitSuccess
    /\ UNCHANGED << attempts, interrupted_at, method, max_threads, timeout, limit, alive, proxies, max_workers,
                    submitted, task, result, route, lock, seen, checked_count,
                    valid_proxies, surv_at_cancel, reported, socket_socket,
                    default_proxy, original_socket >>

\* KeyboardInterrupt in the main thread. Inside the try of
\* _run_proxy_check_threadpool (submitting, waiting) its handler takes over;
\* anywhere else in check() the handler of main() exits with 1.
InterruptStatus(at) ==
    IF at \in {"submit", "wait"} THEN NoExit ELSE ExitFailure

Interrupt ==
    /\ pc \in {"load", "submit", "wait", "save"}
    /\ interrupted_at' = pc
    /\ exit_code' = InterruptStatus(pc)
    /\ IF pc \in {"submit", "wait"}
       THEN /\ pc' = "cancel"
            /\ surv_at_cancel' = valid_proxies
       ELSE /\ pc' = "exited"
            /\ UNCHANGED surv_at_cancel
    /\ UNCHANGED << attempts, file, file_exists, method, max_threads, timeout, limit, alive, proxies,
                    max_workers, submitted, task, result, route, lock, seen,
                    checked_count, valid_proxies, saved, reported, summary,
                    socket_socket, default_proxy, original_socket >>

\* As cancel_futures, with the queued futures left in the queue.
shutdown_without_cancel(t) == t

\* cancel_futures=True: a future still in the work queue is cancelled.
cancel_futures(t) == IF t = "queued" THEN "cancelled" ELSE t

\* executor.shutdown(wait=False, cancel_futures=True): the futures still
\* queued are cancelled, the running ones go on.
CancelFutures ==
    /\ pc = "cancel"
    /\ task' = [i \in Tasks |-> cancel_futures(task[i])]
    /\ pc' = "cancel_save"
    /\ UNCHANGED << attempts, interrupted_at, file, file_exists, method, max_threads, timeout, limit, alive, exit_code, proxies,
                    max_workers, submitted, result, route, lock, seen,
                    checked_count, valid_proxies, surv_at_cancel, saved,
                    reported, summary, socket_socket, default_proxy, original_socket >>

\* save_valid_proxies(file, valid_proxies) of the handler.
SaveCancelled ==
    /\ pc = "cancel_save"
    /\ file' = save_valid_proxies(valid_proxies)
    /\ file_exists' = TRUE
    /\ saved' = saved + 1
    /\ pc' = "cancel_print"
    /\ UNCHANGED << attempts, interrupted_at, method, max_threads, timeout, limit, alive, exit_code, proxies,
                    max_workers, submitted, task, result, route, lock, seen,
                    checked_count, valid_proxies, surv_at_cancel, reported, summary,
                    socket_socket, default_proxy, original_socket >>

\* print(f"Check cancelled. {len(valid_proxies)} valid proxies saved ..."),
\* then sys.exit(130).
CancelExit ==
    /\ pc = "cancel_print"
    /\ reported' = Len(valid_proxies)
    /\ exit_code' = ExitCancelled
    /\ pc' = "exiting"
    /\ UNCHANGED << attempts, interrupted_at, file, file_exists, method, max_threads, timeout, limit, alive, proxies,
                    max_workers, submitted, task, result, route, lock, seen,
                    checked_count, valid_proxies, surv_at_cancel, saved,
                    summary, socket_socket, default_proxy, original_socket >>

\* The interpreter joins the pool's threads before the process ends.
ProcessExit ==
    /\ pc = "exiting"
    /\ Busy = {}
    /\ pc' = "exited"
    /\ UNCHANGED << attempts, interrupted_at, file, file_exists, method, max_threads, timeout, limit, alive, exit_code, proxies,
                    max_workers, submitted, task, result, route, lock, seen,
                    checked_count, valid_proxies, surv_at_cancel, saved,
                    reported, summary, socket_socket, default_proxy, original_socket >>

\* ------------------------------------------------ proxyScraper.py: filter
\* How many digits, at most n, stand at position p of s (the greedy \d{1,n}).
RECURSIVE DigitRun(_, _, _)
DigitRun(s, p, n) ==
    IF n = 0 \/ p > Len(s) \/ ~IsDigit(s[p]) THEN 0
    ELSE 1 + DigitRun(s, p + 1, n - 1)

\* \d{1,3}(?:\.\d{1,3}){k} at position p: the position after the match, 0
\* when there is none. The greedy run is the only one a "." can follow.
RECURSIVE MatchOctets(_, _, _)
MatchOctets(s, p, k) ==
    LET d == DigitRun(s, p, 3)
    IN  IF d = 0 THEN 0
        ELSE IF k = 0 THEN p + d
        ELSE IF p + d <= Len(s) /\ s[p + d] = "."
             THEN MatchOctets(s, p + d + 1, k - 1)
        ELSE 0

\* :\d{1,5} at position p: the position after the match, 0 when there is none.
MatchPort(s, p) ==
    IF p <= Len(s) /\ s[p] = ":" /\ DigitRun(s, p + 1, 5) > 0
    THEN p + 1 + DigitRun(s, p + 1, 5)
    ELSE 0

\* r"\d{1,3}(?:\.\d{1,3}){3}(?::\d{1,5})?" at position p.
MatchProxyPattern(s, p) ==
    LET e == MatchOctets(s, p, 3)
    IN  IF e = 0 THEN 0
        ELSE IF MatchPort(s, e) # 0 THEN MatchPort(s, e) ELSE e

\* re.findall(pattern, text): the matches left to right, not overlapping.
RECURSIVE FindAllFrom(_, _)
FindAllFrom(s, p) ==
    IF p > Len(s) THEN << >>
    ELSE LET e == MatchProxyPattern(s, p)
         IN  IF e = 0 THEN FindAllFrom(s, p + 1)
             ELSE << SubSeq(s, p, e - 1) >> \o FindAllFrom(s, e)

FindAll(s) == FindAllFrom(s, 1)

\* '\n'.join(xs)
RECURSIVE JoinLines(_)
JoinLines(xs) ==
    IF xs = << >> THEN << >>
    ELSE IF Len(xs) = 1 THEN xs[1]
    ELSE xs[1] \o << "\n" >> \o JoinLines(Tail(xs))

\* ipaddress.ip_address(ip) of a text without ":": four decimal octets, each
\* of one to three ASCII digits, no leading zero, at most 255 (else ValueError).
IsOctetText(t) ==
    /\ Len(t) \in 1..3
    /\ AllDigits(t)
    /\ (Len(t) > 1 => t[1] # "0")
    /\ DigitsValue(t) <= MaxOctet

IsIpAddress(ip) ==
    LET parts == Split(ip, ".")
    IN  Len(parts) = 4 /\ \A i \in 1..4 : IsOctetText(parts[i])

Octets(ip) == [i \in 1..4 |-> DigitsValue(Split(ip, ".")[i])]

Pow2(n) == CASE n = 0 -> 1 [] n = 1 -> 2 [] n = 2 -> 4 [] n = 3 -> 8
             [] n = 4 -> 16 [] n = 5 -> 32 [] n = 6 -> 64 [] n = 7 -> 128
             [] n = 8 -> 256

\* ip_obj in ipaddress.ip_network(cidr): the first `bits` bits agree.
InNetwork(o, net) ==
    LET full == net.bits \div 8
        rest == net.bits % 8
    IN  /\ \A i \in 1..full : o[i] = net.addr[i]
        /\ rest > 0 =>
              (o[full + 1] \div Pow2(8 - rest))
                  = (net.addr[full + 1] \div Pow2(8 - rest))

Net(a, b, c, d, bits) == [addr |-> << a, b, c, d >>, bits |-> bits]

\* BAD_IP_RANGES
BAD_IP_RANGES == {
    Net(173, 245, 48, 0, 20), Net(103, 21, 244, 0, 22), Net(103, 22, 200, 0, 22),
    Net(103, 31, 4, 0, 22), Net(141, 101, 64, 0, 18), Net(108, 162, 192, 0, 18),
    Net(190, 93, 240, 0, 20), Net(188, 114, 96, 0, 20), Net(197, 234, 240, 0, 22),
    Net(198, 41, 128, 0, 17), Net(162, 158, 0, 0, 15), Net(104, 16, 0, 0, 13),
    Net(104, 24, 0, 0, 14), Net(172, 64, 0, 0, 13), Net(131, 0, 72, 0, 22),
    Net(13, 32, 0, 0, 15), Net(13, 35, 0, 0, 17), Net(18, 160, 0, 0, 15),
    Net(52, 222, 128, 0, 17), Net(54, 182, 0, 0, 16), Net(54, 192, 0, 0, 16),
    Net(54, 230, 0, 0, 16), Net(54, 239, 128, 0, 18), Net(99, 86, 0, 0, 16),
    Net(205, 251, 200, 0, 21), Net(216, 137, 32, 0, 19) }

\* The networks for which ip_obj.is_private, is_loopback, is_reserved or
\* is_multicast holds (the ipaddress module's IPv4 tables).
SpecialNets == {
    Net(0, 0, 0, 0, 8), Net(10, 0, 0, 0, 8), Net(127, 0, 0, 0, 8),
    Net(169, 254, 0, 0, 16), Net(172, 16, 0, 0, 12), Net(192, 0, 0, 0, 29),
    Net(192, 0, 0, 170, 31), Net(192, 0, 2, 0, 24), Net(192, 168, 0, 0, 16),
    Net(198, 18, 0, 0, 15), Net(198, 51, 100, 0, 24), Net(203, 0, 113, 0, 24),
    Net(240, 0, 0, 0, 4), Net(255, 255, 255, 255, 32), Net(224, 0, 0, 0, 4) }

\* As is_bad_ip, with the loop over BAD_IP_RANGES left out.
is_bad_ip_special_only(ip) ==
    IF ~IsIpAddress(ip) THEN TRUE
    ELSE \/ \E n \in SpecialNets : InNetwork(Octets(ip), n)
         \/ Octets(ip) \in {<< 0, 0, 0, 0 >>, << 255, 255, 255, 255 >>,
                            << 127, 0, 0, 1 >>}

\* is_bad_ip: an address that does not parse is bad, and so is a special
\* address or one inside a listed range.
is_bad_ip(ip) ==
    IF ~IsIpAddress(ip) THEN TRUE
    ELSE \/ \E n \in SpecialNets : InNetwork(Octets(ip), n)
         \/ Octets(ip) \in {<< 0, 0, 0, 0 >>, << 255, 255, 255, 255 >>,
                            << 127, 0, 0, 1 >>}
         \/ \E n \in BAD_IP_RANGES : InNetwork(Octets(ip), n)

ZeroStats == [total |-> 0, filtered_bad |-> 0, filtered_invalid |-> 0, valid |-> 0]

\* As port_in_range, with the lower limit of the port forgotten.
port_below_limit(port_num) == port_num <= MaxPort

\* As port_in_range, with the upper limit of the port forgotten.
port_at_least_one(port_num) == port_num >= 1

\* 1 <= port_num <= 65535
port_in_range(port_num) == port_num >= 1 /\ port_num <= MaxPort

\* One pass of the loop of filter_proxies over a line: "skip" for a blank
\* line, else the counter that the line increases.
LineVerdict(raw) ==
    LET line == Strip(raw)
    IN  IF line = << >> THEN "skip"
        ELSE IF Find(line, ":") = 0 THEN "filtered_invalid"
        ELSE LET ip == Strip(Split1(line, ":")[1])
                 port == ParseInt(Split1(line, ":")[2])
             IN  IF ~IsIpAddress(ip) THEN "filtered_invalid"
                 ELSE IF ~port.ok THEN "filtered_invalid"
                 ELSE IF ~port_in_range(port.val) THEN "filtered_invalid"
                 ELSE IF is_bad_ip(ip) THEN "filtered_bad"
                 ELSE "valid"

\* f"{ip}:{port}" of an accepted line.
AcceptedToken(raw) ==
    LET line == Strip(raw)
    IN  Strip(Split1(line, ":")[1]) \o << ":" >> \o Strip(Split1(line, ":")[2])

\* As Bump, with the count of filtered bad addresses forgotten.
BumpForgetsBad(stats, verdict) ==
    IF verdict = "skip" THEN stats
    ELSE IF verdict = "filtered_bad" THEN [stats EXCEPT !.total = @ + 1]
    ELSE [[stats EXCEPT !.total = @ + 1] EXCEPT ![verdict] = @ + 1]

Bump(stats, verdict) ==
    IF verdict = "skip" THEN stats
    ELSE [[stats EXCEPT !.total = @ + 1] EXCEPT ![verdict] = @ + 1]

RECURSIVE FilterLines(_, _)
FilterLines(ls, acc) ==
    IF ls = << >> THEN acc
    ELSE LET v == LineVerdict(Head(ls))
         IN  FilterLines(Tail(ls),
                [proxies |-> IF v = "valid"
                             THEN acc.proxies \cup {AcceptedToken(Head(ls))}
                             ELSE acc.proxies,
                 stats |-> Bump(acc.stats, v)])

\* As filter_proxies, with the lines that hold no ":" passed over uncounted.
filter_proxies_colon_lines(text) ==
    FilterLines(SelectSeq(Split(text, "\n"), LAMBDA l : Find(l, ":") # 0),
                [proxies |-> {}, stats |-> ZeroStats])

\* Scraper.filter_proxies(proxy_text) -> (proxies, stats)
filter_proxies(text) ==
    FilterLines(Split(text, "\n"), [proxies |-> {}, stats |-> ZeroStats])

\* ------------------------------------------ proxyScraper.py: filter inputs
\* The dotted text of the address of four octets.
AddressText(o) ==
    ToText(o[1]) \o << "." >> \o ToText(o[2]) \o << "." >> \o ToText(o[3])
        \o << "." >> \o ToText(o[4])

\* The first and the last address of a network.
FirstOf(net) == net.addr

LastOf(net) ==
    LET full == net.bits \div 8
        rest == net.bits % 8
    IN  [i \in 1..4 |->
            IF i <= full THEN net.addr[i]
            ELSE IF i = full + 1 /\ rest > 0
                 THEN net.addr[i] + Pow2(8 - rest) - 1
            ELSE MaxOctet]

\* The address before and the address after an address (none before 0.0.0.0
\* and none after 255.255.255.255: the address itself).
Before(o) ==
    IF o[4] > 0 THEN << o[1], o[2], o[3], o[4] - 1 >>
    ELSE IF o[3] > 0 THEN << o[1], o[2], o[3] - 1, MaxOctet >>
    ELSE IF o[2] > 0 THEN << o[1], o[2] - 1, MaxOctet, MaxOctet >>
    ELSE IF o[1] > 0 THEN << o[1] - 1, MaxOctet, MaxOctet, MaxOctet >>
    ELSE o

After(o) ==
    IF o[4] < MaxOctet THEN << o[1], o[2], o[3], o[4] + 1 >>
    ELSE IF o[3] < MaxOctet THEN << o[1], o[2], o[3] + 1, 0 >>
    ELSE IF o[2] < MaxOctet THEN << o[1], o[2] + 1, 0, 0 >>
    ELSE IF o[1] < MaxOctet THEN << o[1] + 1, 0, 0, 0 >>
    ELSE o

\* The addresses tried: the ends of every network the filter knows, and the
\* addresses next to them.
AddressesTried ==
    UNION {{FirstOf(n), LastOf(n), Before(FirstOf(n)), After(LastOf(n))} :
              n \in SpecialNets \cup BAD_IP_RANGES}

\* The ports tried: the limits of the range and the numbers next to them.
PortsTried == {0, 1, 80, MaxPort, MaxPort + 1}

\* The lines "address:port" of the addresses and ports tried.
TokenLines ==
    {AddressText(o) \o << ":" >> \o ToText(p) :
        o \in AddressesTried, p \in PortsTried}

\* ----------------------------------------------- proxyScraper.py: sources
\* The response bodies tried.
\* an empty body
TxtEmpty == << >>

\* a body with no address in it
TxtGarbage ==
    << "b", "a", "d", "-", "l", "i", "n", "e" >>

\* one address
TxtA ==
    << "1", ".", "2", ".", "3", ".", "4", ":", "8", "0" >>

\* two addresses, one of them twice
TxtAB ==
    << "1", ".", "2", ".", "3", ".", "4", ":", "8", "0", "\n", "1", ".", "2",
       ".", "3", ".", "4", ":", "9", "\n", "1", ".", "2", ".", "3", ".", "4",
       ":", "8", "0" >>

\* an address, a private one, a line that is none, a port out of range
TxtMixed ==
    << "1", ".", "2", ".", "3", ".", "4", ":", "8", "0", "\n", "1", "0", ".",
       "0", ".", "0", ".", "1", ":", "8", "0", "\n", "b", "a", "d", "-", "l",
       "i", "n", "e", "\n", "5", ".", "6", ".", "7", ".", "8", ":", "9", "9",
       "9", "9", "9" >>

\* lines of the form protocol://address:port
TxtProto ==
    << "h", "t", "t", "p", ":", "/", "/", "1", ".", "2", ".", "3", ".", "4",
       ":", "9", "\n", "s", "o", "c", "k", "s", "4", ":", "/", "/", "5", ".",
       "6", ".", "7", ".", "8", ":", "8", "0" >>

\* a port of six digits
TxtLongPort ==
    << "1", ".", "2", ".", "3", ".", "4", ":", "6", "5", "5", "3", "5", "1" >>

\* an octet of four digits
TxtLongOctet ==
    << "1", "1", "2", "3", ".", "5", ".", "6", ".", "7", ":", "8", "0" >>

ResponseTexts ==
    {TxtEmpty, TxtGarbage, TxtA, TxtAB, TxtMixed, TxtProto, TxtLongPort,
     TxtLongOctet}

\* Texts for the filter alone: ports at and past the limits of the range
TxtLimits ==
    << "9", ".", "2", "5", "5", ".", "2", "5", "5", ".", "2", "5", "5", ":",
       "6", "5", "5", "3", "5", "\n", "1", "1", ".", "0", ".", "0", ".", "0",
       ":", "6", "5", "5", "3", "6", "\n", "1", ".", "2", ".", "3", ".", "4",
       ":", "0", "\n", "1", ".", "2", ".", "3", ".", "4", ":", "1" >>

\* a port with a sign
TxtSigned ==
    << "1", ".", "2", ".", "3", ".", "4", ":", "+", "8", "0" >>

\* blanks around the address and the port
TxtSpaced ==
    << " ", "1", ".", "2", ".", "3", ".", "4", " ", ":", " ", "8", "0", " " >>

\* an octet with a leading zero
TxtLeadingZero ==
    << "0", "1", ".", "2", ".", "3", ".", "4", ":", "8", "0" >>

\* three octets
TxtThreeOctets ==
    << "1", ".", "2", ".", "3", ":", "8", "0" >>

\* no port, and an empty port
TxtNoPort ==
    << "1", ".", "2", ".", "3", ".", "4", "\n", "1", ".", "2", ".", "3", ".",
       "4", ":" >>

\* an octet past 255
TxtBigOctet ==
    << "2", "5", "6", ".", "1", ".", "1", ".", "1", ":", "8", "0" >>

\* The texts filter_proxies is applied to.
FilterInputs ==
    TokenLines \cup ResponseTexts
        \cup {TxtLimits, TxtSigned, TxtSpaced, TxtLeadingZero, TxtThreeOctets,
               TxtNoPort, TxtBigOctet}

\* ----------------------------------------- proxyScraper.py: filter's state
VARIABLES
    f_text,     \* the text filter_proxies is called with
    f_pc,       \* whether the call has returned
    f_result    \* what it returned: the set of proxies and the stats

fvars == << f_text, f_pc, f_result >>

NoResult == [proxies |-> {}, stats |-> ZeroStats]

FilterIdle == f_text = << >> /\ f_pc = "idle" /\ f_result = NoResult

FilterInit == f_text \in FilterInputs /\ f_pc = "input" /\ f_result = NoResult

\* valid_proxies, stats = self.filter_proxies(text)
ApplyFilter ==
    /\ f_pc = "input"
    /\ f_result' = filter_proxies(f_text)
    /\ f_pc' = "done"
    /\ UNCHANGED f_text

\* Whether sub stands at position p of s.
StartsAt(s, sub, p) ==
    /\ p + Len(sub) - 1 <= Len(s)
    /\ \A k \in 1..Len(sub) : s[p + k - 1] = sub[k]

\* sub in s
Contains(s, sub) == \E p \in 1..(Len(s) + 1) : StartsAt(s, sub, p)

\* s.split(sub)[-1]: what follows the last occurrence of sub.
AfterLast(s, sub) ==
    LET ps == {p \in 1..Len(s) : StartsAt(s, sub, p)}
        last == CHOOSE p \in ps : \A q \in ps : q <= p
    IN  IF ps = {} THEN s ELSE SubSeq(s, last + Len(sub), Len(s))

\* re.match(r"\d{1,3}(?:\.\d{1,3}){3}:\d{1,5}", t): a prefix of t matches.
MatchesProxyPrefix(t) ==
    MatchOctets(t, 1, 3) # 0 /\ MatchPort(t, MatchOctets(t, 1, 3)) # 0

\* The elements of a set of texts as a sequence; the order of a set's
\* iteration is never read by the code (only counts and sets are).
RECURSIVE SetToSeq(_)
SetToSeq(S) ==
    IF S = {} THEN << >>
    ELSE LET m == CHOOSE x \in S : \A y \in S \ {x} : StrLess(y, x)
         IN  << m >> \o SetToSeq(S \ {m})

MethodText(m) ==
    CASE m = "http" -> << "h", "t", "t", "p" >>
      [] m = "https" -> << "h", "t", "t", "p", "s" >>
      [] m = "socks" -> << "s", "o", "c", "k", "s" >>
      [] m = "socks4" -> << "s", "o", "c", "k", "s", "4" >>
      [] m = "socks5" -> << "s", "o", "c", "k", "s", "5" >>

\* GitHubScraper.handle: of the stripped lines that contain the method's name,
\* the part after the last "//" when it begins like address:port.
GitHubLine(line, m) ==
    LET l == Strip(line)
        proxy == IF Contains(l, << "/", "/" >>) THEN AfterLast(l, << "/", "/" >>) ELSE l
    IN  IF l # << >> /\ Contains(l, MethodText(m)) /\ MatchesProxyPrefix(proxy)
        THEN {proxy} ELSE {}

GitHubHandle(text, m) ==
    LET ls == Split(Strip(text), "\n")
    IN  JoinLines(SetToSeq(UNION {GitHubLine(ls[i], m) : i \in 1..Len(ls)}))

\* The literal prefixes of the header and comment lines of spys.me.
SpysHeaders == {
    << "P", "r", "o", "x", "y", " ", "l", "i", "s", "t" >>,
    << "S", "o", "c", "k", "s", " ", "p", "r", "o", "x", "y", "=" >>,
    << "S", "u", "p", "p", "o", "r", "t", " ", "b", "y" >>,
    << "B", "T", "C", " " >>,
    << "I", "P", " ", "a", "d", "d", "r", "e", "s", "s", ":", "P", "o", "r", "t" >>,
    << "#" >> }

\* line.split()[0]: the text up to the first whitespace of a stripped line.
RECURSIVE FirstWord(_)
FirstWord(l) ==
    IF l = << >> \/ Head(l) \in Whitespace THEN << >>
    ELSE << Head(l) >> \o FirstWord(Tail(l))

\* SpysMeScraper.handle: of the lines that are no header, the first word when
\* it holds a ":" and begins like address:port.
SpysLine(line) ==
    LET l == Strip(line)
        w == FirstWord(l)
    IN  IF /\ l # << >>
           /\ ~(\E h \in SpysHeaders : StartsAt(l, h, 1))
           /\ Find(w, ":") # 0
           /\ MatchesProxyPrefix(w)
        THEN {w} ELSE {}

SpysHandle(text) ==
    LET ls == Split(Strip(text), "\n")
    IN  JoinLines(SetToSeq(UNION {SpysLine(ls[i]) : i \in 1..Len(ls)}))

\* str.lower() of the letters of the protocol names.
LowerChar(c) ==
    CASE c = "H" -> "h" [] c = "T" -> "t" [] c = "P" -> "p" [] c = "S" -> "s"
      [] c = "O" -> "o" [] c = "C" -> "c" [] c = "K" -> "k" [] OTHER -> c

Lower(t) == [k \in 1..Len(t) |-> LowerChar(t[k])]

\* line.split("://", 1): what stands before and after the first "://".
SplitProtocol(l) ==
    LET p == CHOOSE q \in 1..Len(l) :
                 /\ StartsAt(l, << ":", "/", "/" >>, q)
                 /\ \A r \in 1..(q - 1) : ~StartsAt(l, << ":", "/", "/" >>, r)
    IN  << SubSeq(l, 1, p - 1), SubSeq(l, p + 3, Len(l)) >>

\* _is_protocol_match
is_protocol_match(protocol, m) ==
    \/ Lower(protocol) = Lower(MethodText(m))
    \/ (m = "socks" /\ Lower(protocol) \in {MethodText("socks4"), MethodText("socks5")})

\* PlainTextScraper.handle on one line: _process_protocol_line for a line
\* with "://", _process_plain_line for any other.
PlainTextLine(line, m) ==
    LET l == Strip(line)
    IN  IF l = << >> \/ Head(l) = "#" THEN {}
        ELSE IF Contains(l, << ":", "/", "/" >>)
        THEN IF /\ is_protocol_match(SplitProtocol(l)[1], m)
                /\ MatchesProxyPrefix(SplitProtocol(l)[2])
             THEN {SplitProtocol(l)[2]} ELSE {}
        ELSE IF MatchesProxyPrefix(l) THEN {l} ELSE {}

PlainTextHandle(text, m) ==
    LET ls == Split(Strip(text), "\n")
    IN  JoinLines(SetToSeq(UNION {PlainTextLine(ls[i], m) : i \in 1..Len(ls)}))

\* The classes whose handle() catches its own exceptions and returns "".
CatchingClasses == {"GitHubScraper", "SpysMeScraper", "PlainTextScraper"}

\* handle(response) of a scraper class: Scraper.handle returns response.text.
handle(cls, m, text) ==
    CASE cls = "GitHubScraper" -> GitHubHandle(text, m)
      [] cls = "SpysMeScraper" -> SpysHandle(text)
      [] cls = "PlainTextScraper" -> PlainTextHandle(text, m)
      [] OTHER -> text

\* The outcomes of one source's request: no response (timeout, transport
\* error), a response of a non-success status, a response on which handle()
\* raises, a response that is handled.
FailKinds == {"timeout", "status", "transport", "handle_error"}

Outcomes ==
    [kind : {"timeout", "transport"}, text : {TxtEmpty}]
        \cup [kind : {"status", "handle_error"}, text : {TxtA}]
        \cup [kind : {"ok"}, text : ResponseTexts]

\* As scrape_one, with raise_for_status() left out: the body of a response of
\* a non-success status is handled like any other.
scrape_one_any_status(cls, m, outcome) ==
    IF outcome.kind \in {"timeout", "transport"}
    THEN [proxies |-> {}, stats |-> ZeroStats]
    ELSE IF outcome.kind = "handle_error" /\ cls \notin CatchingClasses
    THEN [proxies |-> {}, stats |-> ZeroStats]
    ELSE LET proxy_text == IF outcome.kind = "handle_error" THEN << >>
                           ELSE handle(cls, m, outcome.text)
         IN  filter_proxies(JoinLines(FindAll(proxy_text)))

\* Scraper.scrape: the response is fetched and checked, handled, scanned for
\* the pattern and filtered; any exception gives an empty list and zero stats.
\* The handle() of a subclass catches its own exception and returns "".
scrape_one(cls, m, outcome) ==
    IF outcome.kind \in {"timeout", "status", "transport"}
    THEN [proxies |-> {}, stats |-> ZeroStats]
    ELSE IF outcome.kind = "handle_error" /\ cls \notin CatchingClasses
    THEN [proxies |-> {}, stats |-> ZeroStats]
    ELSE LET proxy_text == IF outcome.kind = "handle_error" THEN << >>
                           ELSE handle(cls, m, outcome.text)
         IN  filter_proxies(JoinLines(FindAll(proxy_text)))

\* scrapers: the registry, one entry per kind of entry of the list (a base
\* class source per protocol, a GitHub source, the GitHub source that is
\* listed twice, the source registered under the composite "socks").
Source(cls, m, url) == [cls |-> cls, method |-> m, url |-> url]

scrapers == <<
    Source("ProxyScrapeScraper", "http", "api.proxyscrape.com/http"),
    Source("ProxyScrapeScraper", "socks4", "api.proxyscrape.com/socks4"),
    Source("ProxyScrapeScraper", "socks5", "api.proxyscrape.com/socks5"),
    Source("GitHubScraper", "http", "prxchk/proxy-list/http.txt"),
    Source("GitHubScraper", "http", "prxchk/proxy-list/http.txt"),
    Source("GitHubScraper", "https", "jetkai/proxy-list/https.txt"),
    Source("PlainTextScraper", "https", "api.openproxylist.xyz/https.txt"),
    Source("SpysMeScraper", "socks", "spys.me/socks.txt") >>

\* supported_methods: the choices of --proxy, the methods of the registry.
Selectors == {scrapers[k].method : k \in 1..Len(scrapers)}

\* The selectors a harvest is asked for: the registry's, and one that no
\* source is registered under.
SelectorsTried == Selectors \cup {"ftp"}

\* As determine_scraping_methods, with the extension for "socks" left out.
determine_scraping_methods_self(m) == {m}

\* _determine_scraping_methods
determine_scraping_methods(m) ==
    IF m = "socks" THEN {"socks", "socks4", "socks5"} ELSE {m}

\* _get_scrapers_for_methods: the registry entries, in order, whose method is
\* among the methods.
RECURSIVE SelectFrom(_, _)
SelectFrom(k, methods) ==
    IF k > Len(scrapers) THEN << >>
    ELSE (IF scrapers[k].method \in methods THEN << k >> ELSE << >>)
            \o SelectFrom(k + 1, methods)

get_scrapers_for_methods(methods) == SelectFrom(1, methods)

\* As selection_fails, with the check of the empty selection left out.
selection_never_fails(ps) == FALSE

\* if not proxy_scrapers: raise ValueError
selection_fails(ps) == ps = << >>

\* source_id = f"{scraper.source_name}: {scraper.get_url()}"
source_id(k) == << scrapers[k].cls, scrapers[k].url >>

\* ------------------------------------------------ proxyScraper.py: state
VARIABLES
    selector,        \* the method scrape() is called with
    h_pc,            \* where scrape() is
    h_exit,          \* the status the scraper's process ends with
    proxy_scrapers,  \* the selected entries of the registry (their indices)
    stask,           \* per selected source: where its scrape_source is
    outcome,         \* per selected source: what its request came to
    all_proxies,     \* the shared list the sources extend
    source_stats,    \* the shared dict: source_id -> stats
    wrote,           \* per selected source: the stats entry it wrote
    contributed,     \* per selected source: the tokens it added to all_proxies
    output,          \* the text of the output file
    h_writes         \* how many times the output file was written

hvars == << selector, h_pc, h_exit, proxy_scrapers, stask, outcome,
            all_proxies, source_stats, wrote, contributed, output, h_writes >>

\* What the output file holds before the run.
PriorOutput == LnB \o << "\n" >>

NoOutcome == [kind |-> "none", text |-> TxtEmpty]

Sources == 1..Len(proxy_scrapers)

HarvestIdle ==
    /\ selector = "http"
    /\ h_pc = "idle"
    /\ h_exit = NoExit
    /\ proxy_scrapers = << >>
    /\ stask = << >>
    /\ outcome = << >>
    /\ all_proxies = << >>
    /\ source_stats = << >>
    /\ wrote = << >>
    /\ contributed = << >>
    /\ output = PriorOutput
    /\ h_writes = 0

\* A harvest starts in main(), at the parsing of the command line, or with a
\* call of scrape() by code that imported the module.
HarvestInit ==
    /\ selector \in SelectorsTried
    /\ h_pc \in {"parse", "called"}
    /\ h_exit = NoExit
    /\ proxy_scrapers = << >>
    /\ stask = << >>
    /\ outcome = << >>
    /\ all_proxies = << >>
    /\ source_stats = << >>
    /\ wrote = << >>
    /\ contributed = << >>
    /\ output = PriorOutput
    /\ h_writes = 0

\* The lines of a text file as a reader sees them.
FileLines(text) ==
    LET parts == Split(text, "\n")
    IN  IF text = << >> THEN << >>
        ELSE IF parts[Len(parts)] = << >> THEN SubSeq(parts, 1, Len(parts) - 1)
        ELSE parts

\* ---------------------------------------------- proxyScraper.py: actions
\* parser.parse_args(): a --proxy value outside the choices ends the process
\* with the status of a usage error.
ParseArgs ==
    /\ h_pc = "parse"
    /\ IF selector \in Selectors
       THEN h_pc' = "select" /\ h_exit' = h_exit
       ELSE h_pc' = "exited" /\ h_exit' = ExitUsage
    /\ UNCHANGED << selector, proxy_scrapers, stask, outcome, all_proxies,
                    source_stats, wrote, contributed, output, h_writes >>

\* The start of scrape(): the sources of the method are selected; with none,
\* ValueError is raised: it reaches main(), which exits with 1, or the caller
\* of scrape().
SelectSources ==
    /\ h_pc \in {"select", "called"}
    /\ LET ps == get_scrapers_for_methods(determine_scraping_methods(selector))
       IN  /\ proxy_scrapers' = ps
           /\ stask' = [i \in 1..Len(ps) |-> "pending"]
           /\ outcome' = [i \in 1..Len(ps) |-> NoOutcome]
           /\ wrote' = [i \in 1..Len(ps) |-> ZeroStats]
           /\ contributed' = [i \in 1..Len(ps) |-> {}]
           /\ IF selection_fails(ps)
              THEN IF h_pc = "select"
                   THEN h_pc' = "exited" /\ h_exit' = ExitFailure
                   ELSE h_pc' = "raised" /\ h_exit' = h_exit
              ELSE h_pc' = "gather" /\ h_exit' = h_exit
    /\ UNCHANGED << selector, all_proxies, source_stats, output, h_writes >>

\* scrape_source up to its await: the request of the source is under way.
StartFetch(i) ==
    /\ h_pc = "gather"
    /\ stask[i] = "pending"
    /\ stask' = [stask EXCEPT ![i] = "fetching"]
    /\ UNCHANGED << selector, h_pc, h_exit, proxy_scrapers, outcome,
                    all_proxies, source_stats, wrote, contributed, output,
                    h_writes >>

\* source_stats[source_id] = stats
WithEntry(d, k, v) ==
    [x \in DOMAIN d \cup {k} |-> IF x = k THEN v ELSE d[x]]

\* The request of a source comes to an outcome and scrape_source runs to its
\* end: all_proxies.extend(proxies); source_stats[source_id] = stats.
FinishFetch(i, o) ==
    /\ h_pc = "gather"
    /\ stask[i] = "fetching"
    /\ LET src == scrapers[proxy_scrapers[i]]
           r == scrape_one(src.cls, src.method, o)
       IN  /\ all_proxies' = all_proxies \o SetToSeq(r.proxies)
           /\ source_stats' = WithEntry(source_stats, source_id(proxy_scrapers[i]), r.stats)
           /\ wrote' = [wrote EXCEPT ![i] = r.stats]
           /\ contributed' = [contributed EXCEPT ![i] = r.proxies]
    /\ outcome' = [outcome EXCEPT ![i] = o]
    /\ stask' = [stask EXCEPT ![i] = "done"]
    /\ UNCHANGED << selector, h_pc, h_exit, proxy_scrapers, output, h_writes >>

\* As output_text, with the list written as it is, not its set.
output_text_of_list(all) == JoinLines(Sorted(all)) \o << "\n" >>

\* As output_text, with the file left as it is when nothing was harvested.
output_text_unless_empty(all) ==
    IF all = << >> THEN output
    ELSE JoinLines(Sorted(SetToSeq(ToSet(all)))) \o << "\n" >>

\* f.write("\n".join(sorted(unique_proxies)) + "\n")
output_text(all) == JoinLines(Sorted(SetToSeq(ToSet(all)))) \o << "\n" >>

\* As gathered, returning as soon as one scrape_source has finished.
gathered_first == \E i \in Sources : stask[i] = "done"

\* await asyncio.gather(*tasks, return_exceptions=True) returns when every
\* scrape_source has finished.
gathered == \A i \in Sources : stask[i] = "done"

\* After gather: the unique proxies are written and scrape() returns.
WriteOutput ==
    /\ h_pc = "gather"
    /\ gathered
    /\ output' = output_text(all_proxies)
    /\ h_writes' = h_writes + 1
    /\ h_pc' = "exited"
    /\ h_exit' = ExitSuccess
    /\ UNCHANGED << selector, proxy_scrapers, stask, outcome, all_proxies,
                    source_stats, wrote, contributed >>

\* ------------------------------- proxyChecker.py: the progress indicator
\* The critical section of check_single_proxy over a long list. The workers
\* differ only in what their probe returned, and outside the lock they touch
\* no shared state, so they are counted instead of named: p_pending is the
\* number of candidates whose worker has not yet entered the lock.
ProgressEvery == 50
MaxProbes == 101

\* The list lengths tried: one that ends on a multiple of ProgressEvery and
\* one that passes two multiples.
TotalsTried == {ProgressEvery, MaxProbes}

VARIABLES p_verbose, p_total, p_pending, p_pc, p_is_valid, p_checked,
          p_valid, p_successes, p_progress

pvars == << p_verbose, p_total, p_pending, p_pc, p_is_valid, p_checked,
            p_valid, p_successes, p_progress >>

ProgressIdle ==
    /\ p_verbose = FALSE
    /\ p_total = 0
    /\ p_pending = 0
    /\ p_pc = "out"
    /\ p_is_valid = FALSE
    /\ p_checked = 0
    /\ p_valid = 0
    /\ p_successes = 0
    /\ p_progress = << >>

\* check() has created valid_proxies = [], checked_count_ref = [0] and the
\* lock, and every candidate has been submitted.
ProgressInit ==
    /\ p_verbose \in BOOLEAN
    /\ p_total \in TotalsTried
    /\ p_pending = p_total
    /\ p_pc = "out"
    /\ p_is_valid = FALSE
    /\ p_checked = 0
    /\ p_valid = 0
    /\ p_successes = 0
    /\ p_progress = << >>

\* proxy.check has returned is_valid; with lock: is entered when no other
\* worker is inside.
ProgressEnter(ok) ==
    /\ p_pc = "out"
    /\ p_pending > 0
    /\ p_pending' = p_pending - 1
    /\ p_is_valid' = ok
    /\ p_pc' = "count"
    /\ UNCHANGED << p_verbose, p_total, p_checked, p_valid, p_successes,
                    p_progress >>

\* checked_count_ref[0] += 1 (p_successes: how many of the probes counted so
\* far succeeded).
ProgressCount ==
    /\ p_pc = "count"
    /\ p_checked' = p_checked + 1
    /\ p_successes' = p_successes + (IF p_is_valid THEN 1 ELSE 0)
    /\ p_pc' = "append"
    /\ UNCHANGED << p_verbose, p_total, p_pending, p_is_valid, p_valid,
                    p_progress >>

\* if is_valid: valid_proxies.append(proxy)
ProgressAppend ==
    /\ p_pc = "append"
    /\ p_valid' = p_valid + (IF p_is_valid THEN 1 ELSE 0)
    /\ p_pc' = "report"
    /\ UNCHANGED << p_verbose, p_total, p_pending, p_is_valid, p_checked,
                    p_successes, p_progress >>

\* As progress_due, from the first multiple on.
progress_due_from_first == ~p_verbose /\ p_checked >= ProgressEvery

\* if not verbose and checked_count_ref[0] % 50 == 0
progress_due == ~p_verbose /\ p_checked % ProgressEvery = 0

\* print(f"Progress: {checked}/{total_proxies} ({len(valid_proxies)} valid)")
progress_line ==
    [checked |-> p_checked, total |-> p_total, valid |-> p_valid,
     successes |-> p_successes]

\* The progress indicator, then the end of the with block.
ProgressReport ==
    /\ p_pc = "report"
    /\ p_progress' = IF progress_due THEN Append(p_progress, progress_line)
                     ELSE p_progress
    /\ p_pc' = "out"
    /\ UNCHANGED << p_verbose, p_total, p_pending, p_is_valid, p_checked,
                    p_valid, p_successes >>

\* ---------------------------------------------------------- specifications
vars == << cvars, hvars, fvars, pvars >>

CheckIdle ==
    /\ CheckInitWith({"http"}, 0)
    /\ max_threads = 1 /\ timeout = DefaultTimeout /\ file_exists
    /\ limit = NoLimit
    /\ alive = {}

\* A validation run of HTTP candidates.
Init ==
    CheckInitWith(HttpMethods, MaxLines) /\ HarvestIdle /\ FilterIdle /\ ProgressIdle

Next ==
    \/ ValidateArgs /\ UNCHANGED << hvars, fvars, pvars >>
    \/ Load /\ UNCHANGED << hvars, fvars, pvars >>
    \/ Submit /\ UNCHANGED << hvars, fvars, pvars >>
    \/ SubmitDone /\ UNCHANGED << hvars, fvars, pvars >>
    \/ \E i \in Tasks : Start(i) /\ UNCHANGED << hvars, fvars, pvars >>
    \/ \E i \in Tasks : CheckHttp(i) /\ UNCHANGED << hvars, fvars, pvars >>
    \/ \E i \in Tasks : Acquire(i) /\ UNCHANGED << hvars, fvars, pvars >>
    \/ \E i \in Tasks : Record(i) /\ UNCHANGED << hvars, fvars, pvars >>
    \/ AwaitAll /\ UNCHANGED << hvars, fvars, pvars >>
    \/ SaveFinal /\ UNCHANGED << hvars, fvars, pvars >>
    \/ Interrupt /\ UNCHANGED << hvars, fvars, pvars >>
    \/ CancelFutures /\ UNCHANGED << hvars, fvars, pvars >>
    \/ SaveCancelled /\ UNCHANGED << hvars, fvars, pvars >>
    \/ CancelExit /\ UNCHANGED << hvars, fvars, pvars >>
    \/ ProcessExit /\ UNCHANGED << hvars, fvars, pvars >>

Spec == Init /\ [][Next]_vars

\* A validation run of SOCKS candidates in which no interruption arrives.
SocksInit ==
    /\ CheckInitWith(SocksMethods, MaxSocksLines)
    /\ HarvestIdle /\ FilterIdle /\ ProgressIdle

SocksNext ==
    \/ ValidateArgs /\ UNCHANGED << hvars, fvars, pvars >>
    \/ Load /\ UNCHANGED << hvars, fvars, pvars >>
    \/ Submit /\ UNCHANGED << hvars, fvars, pvars >>
    \/ SubmitDone /\ UNCHANGED << hvars, fvars, pvars >>
    \/ \E i \in Tasks : Start(i) /\ UNCHANGED << hvars, fvars, pvars >>
    \/ \E i \in Tasks : SocksSaveOriginal(i) /\ UNCHANGED << hvars, fvars, pvars >>
    \/ \E i \in Tasks : SocksSetDefault(i) /\ UNCHANGED << hvars, fvars, pvars >>
    \/ \E i \in Tasks : SocksPatch(i) /\ UNCHANGED << hvars, fvars, pvars >>
    \/ \E i \in Tasks : SocksConnect(i) /\ UNCHANGED << hvars, fvars, pvars >>
    \/ \E i \in Tasks : SocksRestore(i) /\ UNCHANGED << hvars, fvars, pvars >>
    \/ \E i \in Tasks : Acquire(i) /\ UNCHANGED << hvars, fvars, pvars >>
    \/ \E i \in Tasks : Record(i) /\ UNCHANGED << hvars, fvars, pvars >>
    \/ AwaitAll /\ UNCHANGED << hvars, fvars, pvars >>
    \/ SaveFinal /\ UNCHANGED << hvars, fvars, pvars >>

SpecSocks == SocksInit /\ [][SocksNext]_vars

\* A harvest run.
HarvestStart == CheckIdle /\ HarvestInit /\ FilterIdle /\ ProgressIdle

HarvestNext ==
    \/ ParseArgs /\ UNCHANGED << cvars, fvars, pvars >>
    \/ SelectSources /\ UNCHANGED << cvars, fvars, pvars >>
    \/ \E i \in Sources : StartFetch(i) /\ UNCHANGED << cvars, fvars, pvars >>
    \/ \E i \in Sources, o \in Outcomes : FinishFetch(i, o) /\ UNCHANGED << cvars, fvars, pvars >>
    \/ WriteOutput /\ UNCHANGED << cvars, fvars, pvars >>

SpecHarvest == HarvestStart /\ [][HarvestNext]_vars

\* Calls of filter_proxies.
FilterStart == CheckIdle /\ HarvestIdle /\ FilterInit /\ ProgressIdle

FilterNext == ApplyFilter /\ UNCHANGED << cvars, hvars, pvars >>

SpecFilter == FilterStart /\ [][FilterNext]_vars

\* The critical sections of a validation run over a long list.
ProgressStart == CheckIdle /\ HarvestIdle /\ FilterIdle /\ ProgressInit

ProgressNext ==
    \/ \E ok \in BOOLEAN : ProgressEnter(ok) /\ UNCHANGED << cvars, hvars, fvars >>
    \/ ProgressCount /\ UNCHANGED << cvars, hvars, fvars >>
    \/ ProgressAppend /\ UNCHANGED << cvars, hvars, fvars >>
    \/ ProgressReport /\ UNCHANGED << cvars, hvars, fvars >>

SpecProgress == ProgressStart /\ [][ProgressNext]_vars

\* check() from its call of _run_proxy_check_threadpool on, for HTTP
\* candidates, in runs in which a worker may raise and every probe comes
\* back: whatever the program can do next, it does at some time (the threads
\* are scheduled, urlopen returns within its timeout). No fairness is asked
\* of the interruption, which the user may never send.
MaxLiveLines == 2

\* The arguments were valid and the list file held at least one candidate.
LiveInit ==
    /\ file \in SeqUpTo(LineUniverse, MaxLiveLines)
    /\ file_exists = TRUE
    /\ timeout = DefaultTimeout
    /\ summary = NoSummary
    /\ method \in HttpMethods
    /\ max_threads \in 1..MaxThreadsArg
    /\ limit \in LimitsTried
    /\ alive \in SUBSET Candidates
    /\ pc = "submit"
    /\ exit_code = NoExit
    /\ proxies = load_proxies_from_file(file, limit)
    /\ proxies # << >>
    /\ max_workers = Min(Len(proxies), PoolCap)
    /\ submitted = 0
    /\ task = [i \in 1..Len(proxies) |-> "unsubmitted"]
    /\ result = [i \in 1..Len(proxies) |-> FALSE]
    /\ route = [i \in 1..Len(proxies) |-> NoRoute]
    /\ lock = 0
    /\ seen = [i \in 1..Len(proxies) |-> 0]
    /\ checked_count = 0
    /\ valid_proxies = << >>
    /\ surv_at_cancel = NotCancelled
    /\ saved = 0
    /\ reported = NoExit
    /\ socket_socket = OriginalSocket
    /\ default_proxy = NoRoute
    /\ original_socket = [i \in 1..Len(proxies) |-> OriginalSocket]
    /\ interrupted_at = "none"
    /\ attempts = [i \in 1..Len(proxies) |-> 0]
    /\ HarvestIdle /\ FilterIdle /\ ProgressIdle

Program ==
    \/ Submit /\ UNCHANGED << hvars, fvars, pvars >>
    \/ SubmitDone /\ UNCHANGED << hvars, fvars, pvars >>
    \/ \E i \in Tasks : Start(i) /\ UNCHANGED << hvars, fvars, pvars >>
    \/ \E i \in Tasks : CheckHttp(i) /\ UNCHANGED << hvars, fvars, pvars >>
    \/ \E i \in Tasks : RaiseOutside(i) /\ UNCHANGED << hvars, fvars, pvars >>
    \/ \E i \in Tasks : Acquire(i) /\ UNCHANGED << hvars, fvars, pvars >>
    \/ \E i \in Tasks : Record(i) /\ UNCHANGED << hvars, fvars, pvars >>
    \/ \E i \in Tasks, counted \in BOOLEAN :
           RaiseInside(i, counted) /\ UNCHANGED << hvars, fvars, pvars >>
    \/ AwaitAll /\ UNCHANGED << hvars, fvars, pvars >>
    \/ SaveFinal /\ UNCHANGED << hvars, fvars, pvars >>
    \/ CancelFutures /\ UNCHANGED << hvars, fvars, pvars >>
    \/ SaveCancelled /\ UNCHANGED << hvars, fvars, pvars >>
    \/ CancelExit /\ UNCHANGED << hvars, fvars, pvars >>
    \/ ProcessExit /\ UNCHANGED << hvars, fvars, pvars >>

LiveNext ==
    \/ Program
    \/ Interrupt /\ UNCHANGED << hvars, fvars, pvars >>

SpecLive == LiveInit /\ [][LiveNext]_vars /\ WF_vars(Program)

\* ------------------------------------------------------------------ claims
NormalCompletion == pc = "exited" /\ exit_code = ExitSuccess /\ saved = 1

\* C1: with n candidates and the concurrency limit L of --max-threads, the
\* pool has min(n, L) workers and never more than L probes are in flight.
C1_PoolAndInFlightWithinLimit ==
    /\ max_workers # 0 => max_workers = Min(Len(proxies), max_threads)
    /\ Cardinality(InFlight) <= max_threads

\* C2: the request of the probe of candidate c is tunneled through c itself,
\* and c survives only if a request through c was answered.
C2_ProbeTunneledThroughItsCandidate ==
    /\ \A i \in Tasks : route[i] # NoRoute => route[i] = proxies[i]
    /\ \A c \in ToSet(valid_proxies) : c \in alive

\* C3: after an interruption the file written holds exactly the candidates
\* that were surviving when the interruption was caught.
C3_CancelledFileIsSurvivorsAtCancel ==
    (interrupted_at \in {"submit", "wait"} /\ saved = 1)
        => file = save_valid_proxies(surv_at_cancel)

\* C4: a run that was interrupted, wherever, ends with status 130.
C4_InterruptedRunExitsCancelled ==
    (interrupted_at # "none" /\ pc = "exited") => exit_code = ExitCancelled

\* C5: the surviving candidates are candidates of the input and are at most
\* totalCount, in every state.
C5_SurvivingWithinInput ==
    /\ ToSet(valid_proxies) \subseteq ToSet(proxies)
    /\ Len(valid_proxies) <= Len(proxies)

C5_Witness ==
    /\ Len(proxies) >= 2
    /\ Len(valid_proxies) >= 1
    /\ \E i \in Tasks : task[i] = "done" /\ ~result[i]

\* C6: on normal completion the set written is the set of the candidates
\* whose probe succeeded, whatever the order of completion.
C6_FinalSetIsSucceeded ==
    NormalCompletion
        => ToSet(file) = {proxies[i] : i \in {j \in Tasks : proxies[j] \in alive}}

C6_Witness ==
    /\ NormalCompletion
    /\ \E i \in Tasks : proxies[i] \in alive
    /\ \E i \in Tasks : proxies[i] \notin alive
    /\ Len(proxies) = 3

\* C7: after normal completion the file is sorted by address:port and no line
\* appears twice.
C7_FinalFileSortedNoDuplicates ==
    NormalCompletion
        => \A i \in 1..Len(file), j \in 1..Len(file) :
              i < j => StrLess(file[i], file[j])

StatsAddUp(st) == st.valid + st.filtered_invalid + st.filtered_bad = st.total

\* C8: the statistics of every source add up: valid + filtered_invalid +
\* filtered_bad = total, also for an empty or useless body and a failed fetch.
C8_StatsAddUp ==
    /\ \A i \in Sources : StatsAddUp(wrote[i])
    /\ \A k \in DOMAIN source_stats : StatsAddUp(source_stats[k])

C8_Witness ==
    /\ \E i \in Sources :
          /\ stask[i] = "done"
          /\ wrote[i].valid >= 1
          /\ wrote[i].filtered_invalid >= 1
          /\ wrote[i].filtered_bad >= 1
    /\ \E i \in Sources : stask[i] = "done" /\ outcome[i].kind \in FailKinds
    /\ \E i \in Sources : stask[i] = "done" /\ outcome[i] = [kind |-> "ok", text |-> TxtGarbage]

HarvestDone == h_pc = "exited" /\ proxy_scrapers # << >>

\* C9: the output of a harvest holds each address:port once and is sorted.
C9_OutputSortedUnique ==
    HarvestDone
        => LET ls == FileLines(output)
           IN  \A i \in 1..Len(ls), j \in 1..Len(ls) :
                  i < j => StrLess(ls[i], ls[j])

C9_Witness ==
    /\ HarvestDone
    /\ Len(FileLines(output)) >= 2
    /\ \E i \in Sources, j \in Sources :
          i # j /\ contributed[i] \cap contributed[j] # {}
    /\ all_proxies # Sorted(all_proxies)

\* The address:port lines of the output file.
OutputTokens == {l \in ToSet(FileLines(output)) : l # << >>}

Failed(i) == stask[i] = "done" /\ outcome[i].kind \in FailKinds

Succeeded(i) == stask[i] = "done" /\ outcome[i].kind = "ok"

\* C10: whichever sources fail, the harvest ends normally, a failing source
\* adds no candidate and writes all-zero statistics, and the output is the
\* merge of what the other sources accepted.
C10_FailingSourcesAreZero ==
    /\ \A i \in Sources : Failed(i) => contributed[i] = {} /\ wrote[i] = ZeroStats
    /\ HarvestDone =>
          /\ h_exit = ExitSuccess
          /\ OutputTokens = UNION {contributed[i] : i \in {j \in Sources : Succeeded(j)}}

C10_Witness ==
    /\ HarvestDone
    /\ \E i \in Sources : Failed(i) /\ outcome[i].kind = "status"
    /\ \E i \in Sources : Failed(i) /\ outcome[i].kind = "handle_error"
    /\ \E i \in Sources : Succeeded(i) /\ contributed[i] # {}


\* No source is registered under a method of the selector's expansion.
NoSourceMatches ==
    get_scrapers_for_methods(determine_scraping_methods(selector)) = << >>

\* C11: when no registered source matches the selector, the harvest fails
\* (a non-zero status or ValueError) before any fetch is started, and the
\* output file is as it was.
C11_NoSourceFailsFast ==
    NoSourceMatches =>
        /\ h_pc \in {"parse", "called", "exited", "raised"}
        /\ h_pc = "exited" => h_exit \in {ExitFailure, ExitUsage}
        /\ \A i \in Sources : stask[i] = "pending"
        /\ all_proxies = << >> /\ source_stats = << >>
        /\ output = PriorOutput

C11_Witness ==
    /\ NoSourceMatches
    /\ h_pc = "raised"
    /\ output = PriorOutput

\* C12: every statistics entry is written once, by the one invocation of its
\* source: no two invocations write the same entry, and after the run there
\* is one entry per selected source.
C12_StatsEntryWrittenOnce ==
    /\ \A i \in Sources, j \in Sources :
          (i # j /\ stask[i] = "done" /\ stask[j] = "done")
              => source_id(proxy_scrapers[i]) # source_id(proxy_scrapers[j])
    /\ HarvestDone => Cardinality(DOMAIN source_stats) = Len(proxy_scrapers)

FilterDone == f_pc = "done"

\* A text is address:port with four dot-separated decimal octets of at most
\* 255 each and an integer port from 1 to 65535.
InShape(t) ==
    /\ Find(t, ":") # 0
    /\ LET parts == Split(Strip(Split1(t, ":")[1]), ".")
           port == ParseInt(Split1(t, ":")[2])
       IN  /\ Len(parts) = 4
           /\ \A i \in 1..4 :
                 /\ parts[i] # << >>
                 /\ AllDigits(parts[i])
                 /\ DigitsValue(parts[i]) >= 0
                 /\ DigitsValue(parts[i]) <= 255
           /\ port.ok /\ port.val >= 1 /\ port.val <= 65535

\* C13: every token the filter accepts has four octets in [0,255] and a port
\* in [1,65535]; no line outside that shape is counted as accepted or returned.
C13_AcceptedTokensInShape ==
    FilterDone =>
        /\ \A t \in f_result.proxies : InShape(t)
        /\ LET ls == Split(f_text, "\n")
           IN  f_result.stats.valid
                   <= Cardinality({i \in 1..Len(ls) : InShape(ls[i])})

C13_Witness ==
    /\ FilterDone
    /\ f_text = TxtLimits
    /\ Cardinality(f_result.proxies) = 2
    /\ f_result.stats.filtered_invalid = 2

\* The networks of the private, loopback, link-local, reserved and multicast
\* addresses.
ReservedNets == {
    Net(10, 0, 0, 0, 8), Net(172, 16, 0, 0, 12), Net(192, 168, 0, 0, 16),
    Net(127, 0, 0, 0, 8), Net(169, 254, 0, 0, 16), Net(240, 0, 0, 0, 4),
    Net(224, 0, 0, 0, 4) }

\* An address the filter must never accept.
Infrastructure(o) ==
    \/ \E n \in ReservedNets \cup BAD_IP_RANGES : InNetwork(o, n)
    \/ o = << 0, 0, 0, 0 >>
    \/ o = << 255, 255, 255, 255 >>

AddressOf(t) == Octets(Strip(Split1(t, ":")[1]))

\* The lines of the text whose address is an infrastructure address.
InfrastructureLines ==
    LET ls == Split(f_text, "\n")
    IN  {i \in 1..Len(ls) :
            /\ Find(ls[i], ":") # 0
            /\ IsIpAddress(Strip(Split1(ls[i], ":")[1]))
            /\ Infrastructure(AddressOf(ls[i]))}

\* C14: whatever the port, a token whose address is private, loopback,
\* reserved, multicast, all-zeros, all-ones or inside a configured CIDR block
\* is never accepted: it is not in the set returned and not counted valid.
C14_InfrastructureNeverAccepted ==
    FilterDone =>
        /\ \A t \in f_result.proxies : ~Infrastructure(AddressOf(t))
        /\ LET ls == Split(f_text, "\n")
           IN  f_result.stats.valid
                   <= Cardinality({i \in 1..Len(ls) : Strip(ls[i]) # << >>})
                          - Cardinality(InfrastructureLines)

C14_Witness ==
    /\ FilterDone
    /\ f_result.stats.filtered_bad = 1
    /\ f_result.proxies = {}
    /\ \E n \in BAD_IP_RANGES :
          f_text = AddressText(LastOf(n)) \o << ":", "8", "0" >>

\* C15: filtering the lines 1.2.3.4:80, 10.0.0.1:80, bad-line and
\* 5.6.7.8:99999 accepts exactly 1.2.3.4:80 and counts one bad address and
\* two invalid lines of four.
C15_ScenarioA ==
    (FilterDone /\ f_text = TxtMixed) =>
        /\ f_result.proxies = {TxtA}
        /\ f_result.stats = [total |-> 4, filtered_bad |-> 1,
                             filtered_invalid |-> 2, valid |-> 1]

C15_Witness == FilterDone /\ f_text = TxtMixed /\ TxtA \in f_result.proxies

\* The candidates of the run through which the target answers.
Answering == {i \in Tasks : proxies[i] \in alive}

\* The tenths of a percentage printed with one decimal.
RateTenths(txt) == DigitsValue(SelectSeq(txt, IsDigit))

\* A text of digits, a point and one digit.
OneDecimal(txt) ==
    /\ Len(txt) >= 3
    /\ txt[Len(txt) - 1] = "."
    /\ \A k \in 1..Len(txt) : k # Len(txt) - 1 => IsDigit(txt[k])

\* C16: on normal completion the summary reports the number of candidates,
\* the number of surviving ones and their ratio as a percentage with one
\* decimal; one success of three candidates leaves one line and reports 33.3.
C16_SummaryOfNormalCompletion ==
    NormalCompletion =>
        /\ summary.total = Len(proxies)
        /\ summary.valid = Cardinality(Answering)
        /\ Len(file) = summary.valid
        /\ OneDecimal(summary.rate)
        /\ LET d == RateTenths(summary.rate) * summary.total
                        - 1000 * summary.valid
           IN  2 * d <= summary.total /\ 0 - 2 * d <= summary.total
        /\ (Len(proxies) = 3 /\ Cardinality(Answering) = 1) =>
              /\ summary.rate = << "3", "3", ".", "3" >>
              /\ \E i \in Answering : file = << proxies[i] >>

C16_Witness ==
    /\ NormalCompletion
    /\ Len(proxies) = 3
    /\ Cardinality(Answering) = 1
    /\ Len(file) = 1
    /\ summary.rate = << "3", "3", ".", "3" >>

\* The configuration is refused: the timeout or the number of threads is not
\* positive, or the list file is missing.
BadConfig == timeout <= 0 \/ max_threads <= 0 \/ ~file_exists

\* C17: with a timeout or concurrency limit that is not positive, or a missing
\* list file, the process exits with status 1 before a candidate is loaded or
\* probed, and the list file is neither created nor modified.
C17_BadConfigFailsBeforeWork ==
    /\ [](BadConfig =>
            /\ pc \in {"validate", "exited"}
            /\ pc = "exited" => exit_code = ExitFailure
            /\ proxies = << >> /\ submitted = 0 /\ task = << >>
            /\ saved = 0)
    /\ [][BadConfig => (file' = file /\ file_exists' = file_exists)]_vars

C17_Witness ==
    /\ pc = "exited"
    /\ exit_code = ExitFailure
    /\ ~file_exists
    /\ timeout > 0 /\ max_threads > 0

\* The sources whose body is a list of lines.
LineOriented == {"GitHubScraper", "PlainTextScraper"}

\* What a line of a raw list stands for: the line itself when it is bare, the
\* part after "://" when the protocol before it is the source's.
LineToken(line, m) ==
    LET l == Strip(line)
        sep == << ":", "/", "/" >>
        at == {q \in 1..Len(l) : StartsAt(l, sep, q)}
        p == CHOOSE q \in at : \A r \in at : q <= r
    IN  IF at = {} THEN {l}
        ELSE IF SubSeq(l, 1, p - 1) = MethodText(m)
        THEN {SubSeq(l, p + 3, Len(l))} ELSE {}

\* The tokens of a body that a source of method m is to retain, as far as the
\* filter accepts them.
RetainedTokens(text, m) ==
    LET ls == Split(text, "\n")
    IN  {t \in UNION {LineToken(ls[k], m) : k \in 1..Len(ls)} :
            InShape(t) /\ LineVerdict(t) = "valid"}

\* C18: a source of a raw list retains every bare address:port line, and a
\* line protocol://address:port exactly when the protocol is the source's.
C18_RawListLinesRetained ==
    \A i \in Sources :
        (/\ stask[i] = "done"
         /\ outcome[i].kind = "ok"
         /\ scrapers[proxy_scrapers[i]].cls \in LineOriented)
            => contributed[i]
                   = RetainedTokens(outcome[i].text,
                                    scrapers[proxy_scrapers[i]].method)

\* scrape() has selected its sources.
SelectionMade == h_pc \in {"gather", "raised"} \/ HarvestDone

\* The registry entries selected.
SelectedEntries == ToSet(proxy_scrapers)

\* The selected sources are the registered ones tagged with a member of the
\* expansion, each once.
SelectedAre(expansion) ==
    /\ \A k \in 1..Len(scrapers) :
          k \in SelectedEntries <=> scrapers[k].method \in expansion
    /\ Len(proxy_scrapers) = Cardinality(SelectedEntries)

\* C19: the sources selected are the registered sources whose tag is in the
\* expansion of the selector, socks expanding to socks4 and socks5 and every
\* other selector to itself.
C19_SelectedByExpansion ==
    SelectionMade =>
        SelectedAre(IF selector = "socks" THEN {"socks4", "socks5"}
                    ELSE {selector})

\* C19 as amended: socks expands to socks, socks4 and socks5.
C19_SelectedByExpansionWithSelf ==
    SelectionMade =>
        SelectedAre(IF selector = "socks" THEN {"socks", "socks4", "socks5"}
                    ELSE {selector})

C19_Witness ==
    /\ h_pc = "gather"
    /\ selector = "socks"
    /\ {scrapers[k].method : k \in SelectedEntries} = {"socks", "socks4", "socks5"}

\* C20: the filter sees each distinct token of a source once, so the count of
\* accepted tokens of a source is the number of distinct candidates it returns.
C20_AcceptedCountIsDistinct ==
    \A i \in Sources :
        stask[i] = "done" => wrote[i].valid = Cardinality(contributed[i])

\* The candidates whose probe has returned success in this run.
ProbeSucceeded(i) == task[i] = "done" /\ result[i]

\* C21: whenever the run has written the list file, every line of it is a
\* candidate whose probe succeeded in this run; the candidates that failed,
\* were not probed before the cancellation or lie beyond the cap are gone.
C21_FileHoldsOnlySucceeded ==
    saved >= 1 =>
        \A k \in 1..Len(file) :
            \E i \in Tasks : proxies[i] = file[k] /\ ProbeSucceeded(i)

C21_Witness ==
    /\ pc = "exited"
    /\ exit_code = ExitCancelled
    /\ saved = 1
    /\ file # << >>
    /\ \E i \in Tasks : task[i] = "cancelled"
    /\ \E i \in Tasks : task[i] = "done" /\ ~result[i]

\* Every SOCKS probe of the run has returned.
AllSocksProbesReturned ==
    /\ method \in SocksMethods
    /\ Tasks # {}
    /\ \A i \in Tasks : task[i] \in {"checked", "locked", "done"}

\* C22: once every SOCKS probe of the run has returned, socket.socket is the
\* factory that was in place before the run, whatever the interleaving.
C22_SocketFactoryRestored ==
    AllSocksProbesReturned => socket_socket = OriginalSocket

\* The candidates whose check_single_proxy has left its critical section.
Counted == {i \in Tasks : task[i] = "done"}

\* C23: the checked tally is the number of completed probes, failed ones
\* included, under every interleaving; it never exceeds the number of
\* candidates and equals it on normal completion; the surviving list holds
\* exactly the counted candidates whose probe succeeded.
C23_TallyCountsEachProbeOnce ==
    /\ checked_count = Cardinality(Counted)
    /\ checked_count <= Len(proxies)
    /\ NormalCompletion => checked_count = Len(proxies)
    /\ Len(valid_proxies) = Cardinality({i \in Counted : result[i]})
    /\ \A k \in 1..Len(valid_proxies) :
           \E i \in Counted : result[i] /\ proxies[i] = valid_proxies[k]

C23_Witness ==
    /\ NormalCompletion
    /\ checked_count = MaxLines
    /\ \E i \in Tasks : ~result[i]
    /\ \E i \in Tasks : result[i]

\* The number of progress lines due: one for each multiple of ProgressEvery
\* the tally has reached, the one of the worker still inside its critical
\* section excepted.
ReportsDue ==
    IF p_pc \in {"append", "report"} /\ p_checked % ProgressEvery = 0
    THEN (p_checked \div ProgressEvery) - 1
    ELSE p_checked \div ProgressEvery

HandlerRan ==
    /\ interrupted_at \in {"submit", "wait"}
    /\ pc \in {"cancel_save", "cancel_print", "exiting", "exited"}

NotStarted == {"unsubmitted", "queued", "cancelled"}

\* C25: once the cancellation handler has shut the executor down, no
\* candidate whose probe had not started starts one; the probes in flight may
\* still go on.
C25_NoStartAfterCancel ==
    [][HandlerRan =>
          \A i \in Tasks : task[i] \in NotStarted => task'[i] = task[i]]_vars

C25_Witness ==
    /\ HandlerRan
    /\ \E i \in Tasks : task[i] = "cancelled"
    /\ \E i \in Tasks : task[i] = "done" /\ surv_at_cancel # valid_proxies

\* C26: a run that has at least one candidate writes the list file exactly
\* once, on normal completion or on cancellation, never on both.
C26_FileWrittenExactlyOnce ==
    /\ saved <= 1
    /\ (pc = "exited" /\ proxies # << >>) => saved = 1

\* The parts of C26 that an interruption outside the pool's try block does not
\* touch: never two writes, and none after the write of the handler.
C26_NeverWrittenTwice == saved <= 1

C26_NoWriteAfterCancelWrite ==
    [][(HandlerRan /\ saved = 1) => (file' = file /\ saved' = saved)]_vars

\* What the selected sources have added to all_proxies so far.
AllContributed == UNION {contributed[i] : i \in Sources}

\* C27: a harvest that dispatched its sources writes the output file once,
\* only after every scrape_source has finished, and the written set lacks
\* nothing any source added.
C27_OutputWrittenOnceAfterAllFetches ==
    /\ h_writes <= 1
    /\ HarvestDone => h_writes = 1
    /\ h_writes = 1 =>
          /\ \A i \in Sources : stask[i] = "done"
          /\ OutputTokens = AllContributed

C27_Witness ==
    /\ h_writes = 1
    /\ Len(proxy_scrapers) >= 2
    /\ \E i \in Sources : Failed(i)
    /\ \E i \in Sources : contributed[i] # {} /\ contributed[i] # AllContributed

\* C28: a loaded candidate is probed at most once in a run and exactly once
\* when the run completes normally; a failed probe is an outcome like any
\* other: its candidate is counted as checked, does not survive, and is not
\* probed again.
C28_ProbedOnceFailuresCounted ==
    \A i \in Tasks :
        /\ attempts[i] <= 1
        /\ NormalCompletion => attempts[i] = 1 /\ i \in Counted
        /\ attempts[i] >= 1 => task[i] \notin NotStarted \cup {"running"}
        /\ (/\ i \in Counted
            /\ \A j \in Counted : proxies[j] = proxies[i] => ~result[j])
               => proxies[i] \notin ToSet(valid_proxies)

C28_Witness ==
    /\ NormalCompletion
    /\ checked_count = Len(proxies)
    /\ \E i \in Tasks : attempts[i] = 1 /\ ~result[i] /\ i \in Counted
    /\ \E i \in Tasks : attempts[i] = 1 /\ result[i]

\* The characters an address:port token is written with.
TokenChars == Digits \cup {".", ":"}

\* The tokens of a fetched text: its maximal runs of token characters.
FetchedTokens(text) ==
    {SubSeq(text, a, b) : <<a, b>> \in
        {w \in (1..Len(text)) \X (1..Len(text)) :
            /\ w[1] <= w[2]
            /\ \A q \in w[1]..w[2] : text[q] \in TokenChars
            /\ (w[1] = 1 \/ text[w[1] - 1] \notin TokenChars)
            /\ (w[2] = Len(text) \/ text[w[2] + 1] \notin TokenChars)}}

\* C29: every candidate a source accepts is a token of the fetched text that
\* has four octets of at most 255 and a port from 1 to 65535; a token with a
\* six-digit port or a four-digit octet yields no candidate.
C29_MalformedTokenYieldsNothing ==
    \A i \in Sources :
        Succeeded(i) =>
            \A c \in contributed[i] :
                c \in FetchedTokens(outcome[i].text) /\ InShape(c)

\* A run is over: the process has ended, no worker is busy with a candidate
\* (none waits for the lock), and a run with candidates that was not
\* interrupted has seen every future finish and has saved and summed up.
Terminated ==
    /\ pc = "exited"
    /\ Busy = {}
    /\ (interrupted_at = "none" /\ proxies # << >>)
           => (AllDone /\ saved = 1 /\ summary # NoSummary)

\* C30: every validation run terminates, uninterrupted or cancelled, also
\* when workers raise inside or outside the critical section.
C30_EveryRunTerminates == <>Terminated

C30_Witness ==
    /\ pc = "exited"
    /\ exit_code = ExitCancelled
    /\ \E i \in Tasks : task[i] = "raised" /\ attempts[i] = 1 /\ route[i] # NoRoute
    /\ \E i \in Tasks : task[i] = "done"

\* C31: on a cancelled run the count of surviving candidates the cancellation
\* summary prints is the number of lines written to the list file, whatever
\* probes are still in flight while the handler saves and prints.
C31_CancelSummaryCountsFileLines ==
    reported # NoExit => reported = Len(file)

\* C32: every address:port line a harvest writes is a candidate for the
\* loader of the validator: none is skipped as invalid.
C32_HarvestLinesLoad ==
    HarvestDone =>
        \A l \in OutputTokens : process_proxy_line(l) = l

C32_Witness ==
    /\ HarvestDone
    /\ Cardinality(OutputTokens) >= 2
    /\ \E i \in Sources : Succeeded(i) /\ outcome[i].text = TxtMixed
    /\ load_proxies_from_file(FileLines(output), NoLimit) # << >>

\* The list file as the run found it holds no candidate to load: every line
\* is blank, a comment or invalid, or the cap is 0.
ZeroCandidates ==
    /\ saved = 0
    /\ file_exists
    /\ args_valid(timeout, max_threads, file_exists)
    /\ \/ limit = 0
       \/ \A k \in 1..Len(file) : process_proxy_line(file[k]) = NoProxy

\* C33: a run whose list file yields no candidate starts no worker and no
\* probe, leaves the file as it is, and ends with status 0.
C33_NoCandidatesNoWork ==
    /\ [](ZeroCandidates =>
             /\ proxies = << >>
             /\ max_workers = 0
             /\ (pc = "exited" /\ interrupted_at = "none")
                    => exit_code = ExitSuccess)
    /\ [][ZeroCandidates => (file' = file /\ saved' = saved)]_vars

C33_Witness ==
    /\ ZeroCandidates
    /\ pc = "exited"
    /\ exit_code = ExitSuccess
    /\ limit = 0
    /\ \E k \in 1..Len(file) : process_proxy_line(file[k]) # NoProxy

\* No selected source has added a candidate.
NothingHarvested == \A i \in Sources : contributed[i] = {}

\* C34: a harvest in which every selected source fails or yields no accepted
\* token ends normally and overwrites the output file with an empty list:
\* what the file held before is lost.
C34_EmptyHarvestOverwrites ==
    (HarvestDone /\ NothingHarvested) =>
        /\ h_exit = ExitSuccess
        /\ h_writes = 1
        /\ OutputTokens = {}
        /\ output # PriorOutput
        /\ output = << "\n" >>

C34_Witness ==
    /\ HarvestDone
    /\ NothingHarvested
    /\ \E i \in Sources : Failed(i)
    /\ \E i \in Sources : Succeeded(i) /\ outcome[i].text = TxtGarbage
    /\ output # PriorOutput

====
